---- MODULE Spec2Model ----
(***************************************************************************)
(* The scull storage core of ldd3 (scullc, scullp, scullv): one device,    *)
(* its segment list, the read/write/seek/open file operations, trim, the   *)
(* mapping counter and the page-fault resolver, with the per-device lock.  *)
(* Each process is one open file (struct file) with its own f_pos.         *)
(***************************************************************************)
EXTENDS Integers, Sequences, FiniteSets, TLC

(* ------------------------------ bounds --------------------------------- *)
\* bytes in one page (PAGE_SIZE is 4096 on the real platform)
PageSize == 2
\* largest allocation order given as module parameter or by ioctl
MaxOrder == 1
\* largest qset given as module parameter or by ioctl
MaxQset == 2
\* largest file position reached by seek and write
MaxPos == 6
\* largest count passed to read and write
MaxCount == 2
\* user data bytes are 0..MaxByte
MaxByte == 1
\* budget of calls per behaviour (see Cost), sequential and concurrent
MaxOps == 5
MaxOpsConc == 4
\* budget of the calls that precede a round trip, and its longest string
MaxOpsRT == 2
MaxRtLen == 3
\* bits of an int (32 on the real platform); a long is wide enough for
\* every position of the model
IntWidth == 6
\* largest quantum and qset, and largest position, handed to the address
\* translation on its own
MaxXlate == 8
MaxXlatePos == 40
\* bits of a long and of a loff_t (64 on the real platform)
LongWidth == 8
\* budget of a behaviour of the translation alone: one translation or one
\* seek
MaxOpsXlate == 2
\* budget of a caller whose user buffer may be unmapped: two data calls
MaxOpsCopy == 4
\* budget of the USB skeleton: probe, opens, releases, writes, disconnect
MaxOpsUsb == 6
\* bytes of a write to the USB skeleton
MaxUsbCount == 1
\* budget of two callers that map a device: a write, two mapping opens, a
\* mapping close, a fault and a truncating open
MaxOpsMap == 7

(* ------------------------- program constants --------------------------- *)
ERESTARTSYS == 512
ENOMEM == 12
EBUSY == 16
ENODEV == 19
EINVAL == 22
EFAULT == 14
VM_FAULT_NOPAGE == 256
O_WRONLY == 1

Variants == {"scullc", "scullp", "scullv"}
Procs == {1, 2}
Bytes == 0..MaxByte
Orders == 0..MaxOrder
Qsets == 1..MaxQset

\* the transfer length, were it not cut at the end of the quantum
Min_Count(a, b) == a

Min(a, b) == IF a < b THEN a ELSE b

\* x << n
Shl(x, n) == x * (2 ^ n)

\* C integer division and remainder (truncation toward zero), b # 0
CDiv(a, b) ==
    IF (a >= 0) = (b > 0)
    THEN (IF a >= 0 THEN a ELSE -a) \div (IF b > 0 THEN b ELSE -b)
    ELSE -((IF a >= 0 THEN a ELSE -a) \div (IF b > 0 THEN b ELSE -b))
CMod(a, b) == a - b * CDiv(a, b)

VARIABLES
    variant,        \* which of the three drivers this device belongs to
    scull_quantum,  \* scullc_quantum (module parameter, ioctl)
    scull_order,    \* scullp_order / scullv_order (module parameter, ioctl)
    scull_qset,     \* scullX_qset (module parameter, ioctl)
    cache_size,     \* object size of scullc_cache, fixed by scullc_init
    dev,            \* the device: size, quantum, order, qset, vmas, segs
    lock,           \* dev->sem / dev->mutex: 1 free, 0 held
    oob,            \* memory outside an allocation has been read or written
    procs,          \* the processes (open files) that run
    budget,         \* file-operation calls left
    pc,             \* per process: idle, wait, locked, memset, oops
    op,             \* per process: the call in progress (or the last one)
    f_pos,          \* per process: filp->f_pos
    ret,            \* per process: return value of the last call
    rbuf,           \* per process: bytes the last read copied to user space
    nvma,           \* per process: mappings (VMAs) it holds on the device
    rt,             \* round-trip client: phase, offset, data, progress
    usb             \* the USB skeleton device: record, references, files, transfer

vars == <<variant, scull_quantum, scull_order, scull_qset, cache_size, dev,
          lock, oob, procs, budget, pc, op, f_pos, ret, rbuf, nvma, rt, usb>>

(* --------------------------- pure functions ---------------------------- *)

\* the block size read and write work with: dev->quantum in scullc,
\* PAGE_SIZE << dev->order in scullp and scullv
Quantum(d) ==
    IF variant = "scullc" THEN d.quantum ELSE Shl(PageSize, d.order)

\* conversion of a value to an int of w bits: two's complement wrap
ToIntW(x, w) ==
    LET m == x % (2 ^ w)
    IN  IF m >= 2 ^ (w - 1) THEN m - 2 ^ w ELSE m

\* conversion to the int of the model
ToInt(x) == ToIntW(x, IntWidth)

\* conversion to the long of the model (a sum that overflows wraps: the
\* kernel is built with -fno-strict-overflow)
ToLong(x) == ToIntW(x, LongWidth)

\* int itemsize = quantum * qset
ItemSize(quantum, qset) == ToInt(quantum * qset)

\* listitem, qset index and offset in the quantum: int item, rest, s_pos,
\* q_pos computed from (long)*f_pos with ints of w bits; itemsize is not 0
TranslateW(pos, quantum, qset, w) ==
    LET itemsize == ToIntW(quantum * qset, w)
        item == ToIntW(CDiv(pos, itemsize), w)
        rest == ToIntW(CMod(pos, itemsize), w)
    IN  [item |-> item, s_pos |-> CDiv(rest, quantum), q_pos |-> CMod(rest, quantum)]

\* the translation with the int of the model
Translate(pos, quantum, qset) == TranslateW(pos, quantum, qset, IntWidth)

\* dptr->order: the head is the device itself, every other list item was
\* zeroed by follow and keeps order 0
SegOrder(d, i) == IF i = 1 THEN d.order ELSE 0

\* bytes of the block that write allocates for list item i
BlockSize(d, i) ==
    IF variant = "scullc" THEN cache_size ELSE Shl(PageSize, SegOrder(d, i))

\* bytes that write zeroes in a new block of list item i
ZeroLen(d, i) ==
    IF variant = "scullc" THEN scull_quantum ELSE Shl(PageSize, SegOrder(d, i))

\* an empty slot of a block array (a NULL pointer)
NoBlock == [alloc |-> FALSE, bytes |-> <<>>, refs |-> 0]

\* a new block: sz bytes, the first zlen of them zeroed, the others as the
\* allocator left them (g); refs counts get_page on its first page
NewBlock(sz, zlen, g) ==
    [alloc |-> TRUE, bytes |-> [k \in 1..sz |-> IF k <= zlen THEN 0 ELSE g], refs |-> 0]

\* a list item as follow leaves it after kmalloc + memset: data == NULL
ZeroSeg == [has |-> FALSE, data |-> <<>>, zeroed |-> TRUE]

\* a list item between kmalloc and memset
RawSeg == [has |-> FALSE, data |-> <<>>, zeroed |-> FALSE]

\* no page (vmf->page left alone) and a page found through a wild pointer
NoPage == [seg |-> 0, slot |-> 0]
WildPage == [seg |-> -1, slot |-> -1]

\* index s lies inside the block array
InArr(data, s) == s >= 0 /\ s + 1 <= Len(data)

\* copy_from_user of n bytes to offset q of a block: bytes that fall
\* outside the block do not land in it
CopyIn(bytes, q, buf, n) ==
    [k \in 1..Len(bytes) |-> IF k > q /\ k <= q + n THEN buf[k - q] ELSE bytes[k]]

\* copy_to_user of n bytes from offset q of a block: bytes outside the
\* block are whatever lies behind it (g)
CopyOut(bytes, q, n, g) ==
    [k \in 1..n |-> IF q + k <= Len(bytes) THEN bytes[q + k] ELSE g]

\* follow(dev, n) on the list: walks n links from list item i, creating
\* (kmalloc + memset) every list item that is missing
RECURSIVE Follow(_, _, _)
Follow(segs, i, n) ==
    IF n = 0 THEN segs
    ELSE Follow(IF i = Len(segs) THEN Append(segs, ZeroSeg) ELSE segs, i + 1, n - 1)

\* dev->size after a write that moved the position to newpos, if it did
\* not grow the size whatever the position
NewSize_Always(size, newpos) == newpos

\* dev->size after a write that moved the position to newpos
NewSize(size, newpos) == IF size < newpos THEN newpos ELSE size

\* the write path under the lock: aok/bok say whether the block-array and
\* the block allocation succeed
WriteEffect(d0, pos, cnt, buf, quantum, qset, aok, bok, g) ==
    LET t == Translate(pos, quantum, qset)
        i == t.item + 1
        d == [d0 EXCEPT !.segs = Follow(@, 1, t.item)]
        needArr == ~d.segs[i].has
        d1 == IF needArr /\ aok
              THEN [d EXCEPT !.segs[i].has = TRUE,
                             !.segs[i].data = [k \in 1..qset |-> NoBlock]]
              ELSE d
        inarr == InArr(d1.segs[i].data, t.s_pos)
        old == IF inarr THEN d1.segs[i].data[t.s_pos + 1] ELSE NoBlock
        n == Min(cnt, quantum - t.q_pos)
        sz == BlockSize(d, i)
        zl == ZeroLen(d, i)
        blk == IF old.alloc THEN old ELSE NewBlock(sz, zl, g)
        d3 == [d1 EXCEPT !.segs[i].data[t.s_pos + 1] =
                             [blk EXCEPT !.bytes = CopyIn(blk.bytes, t.q_pos, buf, n)],
                         !.size = NewSize(d.size, pos + n)]
    IN  IF needArr /\ ~aok
        THEN [dev |-> d, ret |-> -ENOMEM, pos |-> pos, oob |-> FALSE]
        ELSE IF ~inarr
        THEN [dev |-> [d1 EXCEPT !.size = NewSize(d.size, pos + n)], ret |-> n,
              pos |-> pos + n, oob |-> TRUE]
        ELSE IF ~old.alloc /\ ~bok
        THEN [dev |-> d1, ret |-> -ENOMEM, pos |-> pos, oob |-> FALSE]
        ELSE [dev |-> d3, ret |-> n, pos |-> pos + n,
              oob |-> (~old.alloc /\ zl > sz) \/ (n > 0 /\ t.q_pos + n > Len(blk.bytes))]

\* the read path, if a hole read as zero-filled data
ReadEffect_ZeroFill(d0, pos, cnt, quantum, qset, g) ==
    LET cnt1 == IF pos + cnt > d0.size THEN d0.size - pos ELSE cnt
        t == Translate(pos, quantum, qset)
        d == [d0 EXCEPT !.segs = Follow(@, 1, t.item)]
        seg == d.segs[t.item + 1]
        inarr == InArr(seg.data, t.s_pos)
        slot == IF inarr THEN seg.data[t.s_pos + 1] ELSE NoBlock
        n == Min(cnt1, quantum - t.q_pos)
    IN  IF pos > d0.size
        THEN [dev |-> d0, ret |-> 0, pos |-> pos, data |-> <<>>, oob |-> FALSE]
        ELSE IF ~seg.has \/ (inarr /\ ~slot.alloc)
        THEN [dev |-> d, ret |-> n, pos |-> pos + n, data |-> [k \in 1..n |-> 0],
              oob |-> FALSE]
        ELSE IF ~inarr
        THEN [dev |-> d, ret |-> n, pos |-> pos + n, data |-> [k \in 1..n |-> g],
              oob |-> TRUE]
        ELSE [dev |-> d, ret |-> n, pos |-> pos + n,
              data |-> CopyOut(slot.bytes, t.q_pos, n, g),
              oob |-> (n > 0 /\ t.q_pos + n > Len(slot.bytes))]

\* the read path under the lock
ReadEffect(d0, pos, cnt, quantum, qset, g) ==
    LET cnt1 == IF pos + cnt > d0.size THEN d0.size - pos ELSE cnt
        t == Translate(pos, quantum, qset)
        d == [d0 EXCEPT !.segs = Follow(@, 1, t.item)]
        seg == d.segs[t.item + 1]
        inarr == InArr(seg.data, t.s_pos)
        slot == IF inarr THEN seg.data[t.s_pos + 1] ELSE NoBlock
        n == Min(cnt1, quantum - t.q_pos)
    IN  IF pos > d0.size
        THEN [dev |-> d0, ret |-> 0, pos |-> pos, data |-> <<>>, oob |-> FALSE]
        ELSE IF ~seg.has \/ (inarr /\ ~slot.alloc)
        THEN [dev |-> d, ret |-> 0, pos |-> pos, data |-> <<>>, oob |-> FALSE]
        ELSE IF ~inarr
        THEN [dev |-> d, ret |-> n, pos |-> pos + n, data |-> [k \in 1..n |-> g],
              oob |-> TRUE]
        ELSE [dev |-> d, ret |-> n, pos |-> pos + n,
              data |-> CopyOut(slot.bytes, t.q_pos, n, g),
              oob |-> (n > 0 /\ t.q_pos + n > Len(slot.bytes))]

\* write at pos has to allocate the block array / the block
NeedArr(d, pos, quantum, qset) ==
    LET t == Translate(pos, quantum, qset)
    IN  t.item + 1 > Len(d.segs) \/ ~d.segs[t.item + 1].has

NeedBlock(d, pos, quantum, qset) ==
    LET t == Translate(pos, quantum, qset)
    IN  \/ NeedArr(d, pos, quantum, qset)
        \/ /\ InArr(d.segs[t.item + 1].data, t.s_pos)
           /\ ~d.segs[t.item + 1].data[t.s_pos + 1].alloc

\* the outcomes of the allocations a write makes (TRUE: success), and the
\* values that memory the call did not initialise can hold
ArrOutcomes(d, pos, quantum, qset) ==
    IF NeedArr(d, pos, quantum, qset) THEN BOOLEAN ELSE {TRUE}
BlockOutcomes(d, pos, quantum, qset) ==
    IF NeedBlock(d, pos, quantum, qset) THEN BOOLEAN ELSE {TRUE}
WriteGarbage(d, pos, quantum, qset) ==
    IF NeedBlock(d, pos, quantum, qset)
       /\ ZeroLen(d, Translate(pos, quantum, qset).item + 1)
            < BlockSize(d, Translate(pos, quantum, qset).item + 1)
    THEN Bytes ELSE {0}
ReadGarbage(d, pos, cnt, quantum, qset) ==
    IF ReadEffect(d, pos, cnt, quantum, qset, 0).oob THEN Bytes ELSE {0}

\* what copy_from_user leaves in the kernel buffer when it fails after k
\* bytes: the bytes copied, then zero padding up to the requested length
Padded(buf, k) == [j \in 1..Len(buf) |-> IF j <= k THEN buf[j] ELSE 0]

\* the write path with a user buffer that faults, if the failed copy were
\* taken for a short one: position and size move as after a success
WriteFaultEffect_Grows(d0, pos, cnt, buf, quantum, qset, aok, bok, g, k) ==
    [WriteEffect(d0, pos, cnt, Padded(buf, k), quantum, qset, aok, bok, g)
        EXCEPT !.ret = IF @ > 0 THEN -EFAULT ELSE @]

\* the write path under the lock with a user buffer that faults after k
\* bytes: everything up to copy_from_user is as in a write, then the call
\* leaves through out with -EFAULT before *f_pos and dev->size are touched;
\* a copy of 0 bytes cannot fail
WriteFaultEffect(d0, pos, cnt, buf, quantum, qset, aok, bok, g, k) ==
    LET t == Translate(pos, quantum, qset)
        i == t.item + 1
        d == [d0 EXCEPT !.segs = Follow(@, 1, t.item)]
        needArr == ~d.segs[i].has
        d1 == IF needArr /\ aok
              THEN [d EXCEPT !.segs[i].has = TRUE,
                             !.segs[i].data = [k2 \in 1..qset |-> NoBlock]]
              ELSE d
        inarr == InArr(d1.segs[i].data, t.s_pos)
        old == IF inarr THEN d1.segs[i].data[t.s_pos + 1] ELSE NoBlock
        n == Min(cnt, quantum - t.q_pos)
        sz == BlockSize(d, i)
        zl == ZeroLen(d, i)
        blk == IF old.alloc THEN old ELSE NewBlock(sz, zl, g)
        got == Padded(buf, Min(k, n - 1))
        d3 == [d1 EXCEPT !.segs[i].data[t.s_pos + 1] =
                             [blk EXCEPT !.bytes = CopyIn(blk.bytes, t.q_pos, got, n)]]
        r == IF n > 0 THEN -EFAULT ELSE 0
    IN  IF needArr /\ ~aok
        THEN [dev |-> d, ret |-> -ENOMEM, pos |-> pos, oob |-> FALSE]
        ELSE IF ~inarr
        THEN [dev |-> IF n > 0 THEN d1 ELSE [d1 EXCEPT !.size = NewSize(d.size, pos)],
              ret |-> r, pos |-> pos, oob |-> TRUE]
        ELSE IF ~old.alloc /\ ~bok
        THEN [dev |-> d1, ret |-> -ENOMEM, pos |-> pos, oob |-> FALSE]
        ELSE [dev |-> IF n > 0 THEN d3 ELSE [d3 EXCEPT !.size = NewSize(d.size, pos)],
              ret |-> r, pos |-> pos,
              oob |-> (~old.alloc /\ zl > sz) \/ (n > 0 /\ t.q_pos + n > Len(blk.bytes))]

\* the read path with a user buffer that faults, if the bytes that did not
\* arrive were skipped: the position moves as after a success
ReadFaultEffect_Skips(d0, pos, cnt, quantum, qset, g) ==
    LET e == ReadEffect(d0, pos, cnt, quantum, qset, g)
    IN  IF e.ret > 0 THEN [e EXCEPT !.ret = -EFAULT, !.data = <<>>] ELSE e

\* the read path under the lock with a user buffer that faults: everything
\* up to copy_to_user is as in a read, then the call leaves through out with
\* -EFAULT and *f_pos as it was; a copy of 0 bytes cannot fail
ReadFaultEffect(d0, pos, cnt, quantum, qset, g) ==
    LET e == ReadEffect(d0, pos, cnt, quantum, qset, g)
    IN  IF e.ret > 0
        THEN [dev |-> e.dev, ret |-> -EFAULT, pos |-> pos, data |-> <<>>, oob |-> e.oob]
        ELSE e

\* trim, if it did not look at the mappings
TrimEffect_NoBusy(d) ==
    [dev |-> [d EXCEPT !.segs = <<ZeroSeg>>, !.size = 0, !.qset = scull_qset,
                       !.quantum = IF variant = "scullc" THEN scull_quantum ELSE 0,
                       !.order = IF variant = "scullc" THEN 0 ELSE scull_order],
     ret |-> 0]

\* trim, if it reset the size and the configuration but kept the list
TrimEffect_KeepList(d) ==
    IF d.vmas # 0
    THEN [dev |-> d, ret |-> -EBUSY]
    ELSE [dev |-> [d EXCEPT !.size = 0, !.qset = scull_qset,
                            !.quantum = IF variant = "scullc" THEN scull_quantum ELSE 0,
                            !.order = IF variant = "scullc" THEN 0 ELSE scull_order],
          ret |-> 0]

\* trim, if it left the head with a fresh, empty block array
TrimEffect_NewArray(d) ==
    IF d.vmas # 0
    THEN [dev |-> d, ret |-> -EBUSY]
    ELSE [dev |-> [d EXCEPT !.segs = <<[ZeroSeg EXCEPT !.has = TRUE,
                                          !.data = [k \in 1..scull_qset |-> NoBlock]]>>,
                            !.size = 0, !.qset = scull_qset,
                            !.quantum = IF variant = "scullc" THEN scull_quantum ELSE 0,
                            !.order = IF variant = "scullc" THEN 0 ELSE scull_order],
          ret |-> 0]

\* trim: refused while mapped, else everything but the head is released
TrimEffect(d) ==
    IF d.vmas # 0
    THEN [dev |-> d, ret |-> -EBUSY]
    ELSE [dev |-> [d EXCEPT !.segs = <<ZeroSeg>>, !.size = 0, !.qset = scull_qset,
                            !.quantum = IF variant = "scullc" THEN scull_quantum ELSE 0,
                            !.order = IF variant = "scullc" THEN 0 ELSE scull_order],
          ret |-> 0]

\* what the loop of trim hands to the allocators for list item i: seg.data[k]
\* for k < qset when it is not NULL (a slot beyond the block array is a
\* wild pointer), then the block array, then the list item unless it is
\* the head; scullp passes the order of the list item to free_pages
TrimItemFrees(d, i, ord) ==
    LET seg == d.segs[i]
        slots == [k \in 1..d.qset |->
                    [kind |-> IF InArr(seg.data, k - 1) THEN "block" ELSE "wild",
                     seg |-> i, slot |-> k,
                     order |-> IF variant = "scullp" THEN ord ELSE 0]]
        Freed(f) == f.kind = "wild" \/ seg.data[f.slot].alloc
    IN  (IF seg.has
         THEN SelectSeq(slots, Freed)
                \o <<[kind |-> "array", seg |-> i, slot |-> 0, order |-> 0]>>
         ELSE <<>>)
        \o (IF i # 1 THEN <<[kind |-> "item", seg |-> i, slot |-> 0, order |-> 0]>>
                     ELSE <<>>)

\* the frees of trim, if it passed the order of the device for every block
RECURSIVE TrimFrees_DevOrder(_, _)
TrimFrees_DevOrder(d, i) ==
    IF i > Len(d.segs) THEN <<>>
    ELSE TrimItemFrees(d, i, d.order) \o TrimFrees_DevOrder(d, i + 1)

\* the frees of a trim that is not refused, in the order of its loop over
\* the list from list item i on
RECURSIVE TrimFrees(_, _)
TrimFrees(d, i) ==
    IF i > Len(d.segs) THEN <<>>
    ELSE TrimItemFrees(d, i, SegOrder(d, i)) \o TrimFrees(d, i + 1)

\* the fault handler, if it looked in the list item it starts with and
\* never followed a link
FaultWalk_Stay(d, i, off) == [ptr |-> i, off |-> off % d.qset]

\* the list walk of the fault handler, in pages: i is the list item
\* (beyond the list: ptr == NULL), off the page left
RECURSIVE FaultWalk(_, _, _)
FaultWalk(d, i, off) ==
    IF i <= Len(d.segs) /\ off >= d.qset
    THEN FaultWalk(d, i + 1, off - d.qset)
    ELSE [ptr |-> i, off |-> off]

\* the fault handler, if it reached the page through follow as read and
\* write do, creating the list items that are missing
FaultEffect_Follow(d, offset) ==
    LET d2 == [d EXCEPT !.segs = Follow(@, 1, (offset \div PageSize) \div d.qset)]
    IN  [dev |-> d2, ret |-> VM_FAULT_NOPAGE, page |-> NoPage, oob |-> FALSE]

\* the fault handler under the lock: offset is the byte offset of the page
FaultEffect(d, offset) ==
    LET w == FaultWalk(d, 1, offset \div PageSize)
        has == w.ptr <= Len(d.segs) /\ d.segs[w.ptr].has
        inarr == has /\ InArr(d.segs[w.ptr].data, w.off)
        found == inarr /\ d.segs[w.ptr].data[w.off + 1].alloc
    IN  IF offset >= d.size \/ ~has \/ (inarr /\ ~found)
        THEN [dev |-> d, ret |-> VM_FAULT_NOPAGE, page |-> NoPage, oob |-> FALSE]
        ELSE IF ~inarr
        THEN [dev |-> d, ret |-> 0, page |-> WildPage, oob |-> TRUE]
        ELSE [dev |-> [d EXCEPT !.segs[w.ptr].data[w.off + 1].refs = @ + 1],
              ret |-> 0, page |-> [seg |-> w.ptr, slot |-> w.off + 1], oob |-> FALSE]

\* seek, if SEEK_END were relative to the position
LlseekEffect_FromPos(pos, size, off, whence) ==
    LET newpos == CASE whence = 0 -> off
                    [] whence = 1 -> ToLong(pos + off)
                    [] whence = 2 -> ToLong(pos + off)
                    [] OTHER -> -1
    IN  IF whence \notin {0, 1, 2} \/ newpos < 0
        THEN [ret |-> -EINVAL, pos |-> pos]
        ELSE [ret |-> newpos, pos |-> newpos]

\* seek: the new position, or -EINVAL
LlseekEffect(pos, size, off, whence) ==
    LET newpos == CASE whence = 0 -> off
                    [] whence = 1 -> ToLong(pos + off)
                    [] whence = 2 -> ToLong(size + off)
                    [] OTHER -> -1
    IN  IF whence \notin {0, 1, 2} \/ newpos < 0
        THEN [ret |-> -EINVAL, pos |-> pos]
        ELSE [ret |-> newpos, pos |-> newpos]

\* mmap: scullp refuses a device whose order is not 0; scullv has no check
MmapEffect(d) ==
    IF variant = "scullp" /\ d.order # 0
    THEN [dev |-> d, ret |-> -ENODEV]
    ELSE [dev |-> [d EXCEPT !.vmas = @ + 1], ret |-> 0]

(* ------------------------------- state --------------------------------- *)

\* a call: its name and arguments (pos is *f_pos at entry), the locals it
\* read from the device at entry, the page a fault resolved to, and
\* dev->size as the call found it
NoOp == [name |-> "none", pos |-> 0, count |-> 0, buf |-> <<>>, quantum |-> 0,
         qset |-> 0, arg |-> 0, page |-> NoPage, size |-> 0]

\* a call in progress
Entered(name, pos, count, buf, arg) ==
    [NoOp EXCEPT !.name = name, !.pos = pos, !.count = count, !.buf = buf,
                 !.quantum = Quantum(dev), !.qset = dev.qset, !.arg = arg]

\* what is kept of a call after it returned
Returned(name, pos, count, arg, page) ==
    [NoOp EXCEPT !.name = name, !.pos = pos, !.count = count, !.arg = arg,
                 !.page = page, !.size = dev.size]

\* user buffers of up to MaxCount bytes handed to write: n times the byte v
Bufs == {[k \in 1..n |-> v] : n \in 0..MaxCount, v \in 1..MaxByte}

\* the device after scullX_init: zeroed, then order/quantum and qset set from
\* the module parameters
InitDev == [size |-> 0,
            quantum |-> IF variant = "scullc" THEN scull_quantum ELSE 0,
            order |-> IF variant = "scullc" THEN 0 ELSE scull_order,
            qset |-> scull_qset, vmas |-> 0, segs |-> <<ZeroSeg>>]

RtOff == [phase |-> "off", o |-> 0, data |-> <<>>, done |-> 0, got |-> <<>>,
          empty |-> FALSE]

\* the USB skeleton before skel_probe: no struct usb_skel, nothing
\* registered, no file open, no transfer
\*   rec: the struct usb_skel ("none", "live", "freed"); kref: dev->kref
\*   intfdata: usb_get_intfdata(interface) is the record; minor: the
\*   interface is registered with the USB core, so opens reach skel_open
\*   disc: how far skel_disconnect has got; deleted: runs of skel_delete
\*   stale: a freed record was used; file: per caller, its file and how far
\*   its skel_open has got; call, fret: the last call of a caller that
\*   returned, and its result
\*   wcount .. wnull: the last skel_write: its count, the step that failed,
\*   its result, the allocations and frees of its urb and its buffer, the references on the urb, whether the
\*   transfer is in flight, and whether a NULL urb was dereferenced
UsbInit ==
    [rec |-> "none", kref |-> 0, intfdata |-> FALSE, minor |-> FALSE,
     disc |-> "unbound", deleted |-> 0, stale |-> FALSE,
     file |-> [p \in Procs |-> "closed"],
     call |-> [p \in Procs |-> "none"],
     fret |-> [p \in Procs |-> 0],
     wcount |-> 0, wfail |-> "none", wret |-> 0, urballoc |-> 0, urbrefs |-> 0, urbfree |-> 0,
     bufalloc |-> 0, buffree |-> 0, flight |-> FALSE, wnull |-> FALSE]

InitCommon ==
    /\ variant \in Variants
    /\ scull_order \in (IF variant = "scullc" THEN {0} ELSE Orders)
    /\ scull_quantum \in (IF variant = "scullc" THEN {Shl(PageSize, o) : o \in Orders} ELSE {0})
    /\ scull_qset \in Qsets
    /\ cache_size = scull_quantum
    /\ dev = InitDev
    /\ lock = 1
    /\ oob = FALSE
    /\ pc = [p \in Procs |-> "idle"]
    /\ op = [p \in Procs |-> NoOp]
    /\ f_pos = [p \in Procs |-> 0]
    /\ ret = [p \in Procs |-> 0]
    /\ rbuf = [p \in Procs |-> <<>>]
    /\ nvma = [p \in Procs |-> 0]
    /\ rt = RtOff
    /\ usb = UsbInit

\* one open file, no concurrency
Init == InitCommon /\ procs = {1} /\ budget = MaxOps

\* two open files used by two concurrent callers
InitConc == InitCommon /\ procs = Procs /\ budget = MaxOpsConc

(* ------------------------------ actions -------------------------------- *)

\* p is not inside a call; it may start one while calls are left
Idle(p) == p \in procs /\ pc[p] = "idle"
\* the calls that move data or the position count double in the budget
Cost(name) == IF name \in {"read", "write", "llseek", "xlate"} THEN 2 ELSE 1
Free(p, name) == Idle(p) /\ rt.phase = "off" /\ budget >= Cost(name)
Spend(name) == budget' = budget - Cost(name)

\* a call returns: what is kept of it for inspection
Return(p, name, pos, count, arg, page, r, data) ==
    /\ op' = [op EXCEPT ![p] = Returned(name, pos, count, arg, page)]
    /\ ret' = [ret EXCEPT ![p] = r]
    /\ rbuf' = [rbuf EXCEPT ![p] = data]

\* read or write at pos has to create a list item (pos is at most the size
\* when read gets to follow)
NeedSeg(d, name, pos, quantum, qset) ==
    /\ ~(name = "read" /\ pos > d.size)
    /\ Len(d.segs) < Translate(pos, quantum, qset).item + 1

\* kmalloc in follow fails: the unchecked memset dereferences NULL and the
\* caller dies in the kernel with the lock held
Oops(p) ==
    /\ pc' = [pc EXCEPT ![p] = "oops"]
    /\ lock' = 0
    /\ UNCHANGED <<dev, oob, ret, rbuf>>

(* the handlers as single steps: nobody else is around, the lock is free.  *)
(* read and write are entered with *f_pos == pos: the file position after  *)
(* a seek to pos, or the offset given to pread/pwrite.                     *)

\* scullX_read
DoRead(p, pos, c) ==
    /\ Idle(p)
    /\ \/ \E g \in ReadGarbage(dev, pos, c, Quantum(dev), dev.qset) :
            LET e == ReadEffect(dev, pos, c, Quantum(dev), dev.qset, g)
            IN  /\ dev' = e.dev
                /\ f_pos' = [f_pos EXCEPT ![p] = e.pos]
                /\ oob' = (oob \/ e.oob)
                /\ Return(p, "read", pos, c, 0, NoPage, e.ret, e.data)
                /\ UNCHANGED <<pc, lock>>
       \/ /\ NeedSeg(dev, "read", pos, Quantum(dev), dev.qset)
          /\ f_pos' = [f_pos EXCEPT ![p] = pos]
          /\ op' = [op EXCEPT ![p] = Entered("read", pos, c, <<>>, 0)]
          /\ Oops(p)
    /\ UNCHANGED <<usb, variant, scull_quantum, scull_order, scull_qset, cache_size,
                   procs, nvma>>

\* scullX_write
DoWrite(p, pos, b) ==
    /\ Idle(p)
    /\ \/ \E aok \in ArrOutcomes(dev, pos, Quantum(dev), dev.qset),
               bok \in BlockOutcomes(dev, pos, Quantum(dev), dev.qset),
               g \in WriteGarbage(dev, pos, Quantum(dev), dev.qset) :
            LET e == WriteEffect(dev, pos, Len(b), b, Quantum(dev), dev.qset,
                                 aok, bok, g)
            IN  /\ dev' = e.dev
                /\ f_pos' = [f_pos EXCEPT ![p] = e.pos]
                /\ oob' = (oob \/ e.oob)
                /\ Return(p, "write", pos, Len(b), 0, NoPage, e.ret, <<>>)
                /\ UNCHANGED <<pc, lock>>
       \/ /\ NeedSeg(dev, "write", pos, Quantum(dev), dev.qset)
          /\ f_pos' = [f_pos EXCEPT ![p] = pos]
          /\ op' = [op EXCEPT ![p] = Entered("write", pos, Len(b), b, 0)]
          /\ Oops(p)
    /\ UNCHANGED <<usb, variant, scull_quantum, scull_order, scull_qset, cache_size,
                   procs, nvma>>

Read(p, pos, c) ==
    Free(p, "read") /\ DoRead(p, pos, c) /\ Spend("read") /\ UNCHANGED rt

Write(p, pos, b) ==
    Free(p, "write") /\ DoWrite(p, pos, b) /\ Spend("write") /\ UNCHANGED rt

\* scullX_read with a user buffer that is not mapped (op.arg = 1)
ReadBad(p, pos, c) ==
    /\ Free(p, "read")
    /\ \/ \E g \in ReadGarbage(dev, pos, c, Quantum(dev), dev.qset) :
            LET e == ReadFaultEffect(dev, pos, c, Quantum(dev), dev.qset, g)
            IN  /\ dev' = e.dev
                /\ f_pos' = [f_pos EXCEPT ![p] = e.pos]
                /\ oob' = (oob \/ e.oob)
                /\ Return(p, "read", pos, c, 1, NoPage, e.ret, e.data)
                /\ UNCHANGED <<pc, lock>>
       \/ /\ NeedSeg(dev, "read", pos, Quantum(dev), dev.qset)
          /\ f_pos' = [f_pos EXCEPT ![p] = pos]
          /\ op' = [op EXCEPT ![p] = Entered("read", pos, c, <<>>, 1)]
          /\ Oops(p)
    /\ Spend("read")
    /\ UNCHANGED <<usb, variant, scull_quantum, scull_order, scull_qset, cache_size,
                   procs, nvma, rt>>

\* scullX_write with a user buffer of which only the first k bytes are
\* mapped (op.arg = 1)
WriteBad(p, pos, b, k) ==
    /\ Free(p, "write")
    /\ \/ \E aok \in ArrOutcomes(dev, pos, Quantum(dev), dev.qset),
               bok \in BlockOutcomes(dev, pos, Quantum(dev), dev.qset),
               g \in WriteGarbage(dev, pos, Quantum(dev), dev.qset) :
            LET e == WriteFaultEffect(dev, pos, Len(b), b, Quantum(dev), dev.qset,
                                      aok, bok, g, k)
            IN  /\ dev' = e.dev
                /\ f_pos' = [f_pos EXCEPT ![p] = e.pos]
                /\ oob' = (oob \/ e.oob)
                /\ Return(p, "write", pos, Len(b), 1, NoPage, e.ret, <<>>)
                /\ UNCHANGED <<pc, lock>>
       \/ /\ NeedSeg(dev, "write", pos, Quantum(dev), dev.qset)
          /\ f_pos' = [f_pos EXCEPT ![p] = pos]
          /\ op' = [op EXCEPT ![p] = Entered("write", pos, Len(b), b, 1)]
          /\ Oops(p)
    /\ Spend("write")
    /\ UNCHANGED <<usb, variant, scull_quantum, scull_order, scull_qset, cache_size,
                   procs, nvma, rt>>

\* scullX_open: a write-only open trims, and ignores the result of trim
\* (kept in op.arg for inspection)
Open(p, flags) ==
    /\ Free(p, "open")
    /\ LET e == IF flags = O_WRONLY THEN TrimEffect(dev) ELSE [dev |-> dev, ret |-> 0]
       IN  /\ dev' = e.dev
           /\ Return(p, IF flags = O_WRONLY THEN "trunc" ELSE "open", 0, 0, e.ret,
                     NoPage, 0, <<>>)
    /\ Spend("open")
    /\ UNCHANGED <<usb, variant, scull_quantum, scull_order, scull_qset, cache_size,
                   lock, oob, procs, pc, f_pos, nvma, rt>>

\* the fault handler, for a fault in a mapping p holds; pg is the page
\* offset in the device
Fault(p, pg) ==
    /\ Free(p, "fault")
    /\ nvma[p] > 0
    /\ LET e == FaultEffect(dev, pg * PageSize)
       IN  /\ dev' = e.dev
           /\ oob' = (oob \/ e.oob)
           /\ Return(p, "fault", 0, 0, pg, e.page, e.ret, <<>>)
    /\ Spend("fault")
    /\ UNCHANGED <<usb, variant, scull_quantum, scull_order, scull_qset, cache_size,
                   lock, procs, pc, f_pos, nvma, rt>>

(* file operations that take no lock *)

\* scullX_llseek on a file whose position is cur
Llseek(p, cur, off, whence) ==
    /\ Free(p, "llseek")
    /\ LET e == LlseekEffect(cur, dev.size, off, whence)
       IN  /\ f_pos' = [f_pos EXCEPT ![p] = e.pos]
           /\ Return(p, "llseek", 0, 0, 0, NoPage, e.ret, <<>>)
    /\ Spend("llseek")
    /\ UNCHANGED <<usb, variant, scull_quantum, scull_order, scull_qset, cache_size,
                   dev, lock, oob, procs, pc, nvma, rt>>

\* ioctl "tell" commands: set the defaults that the next trim installs
\* (what: 0 the quantum or order, 1 the qset)
Ioctl(p, what, v) ==
    /\ Free(p, "ioctl")
    /\ \/ /\ what = 0 /\ variant = "scullc" /\ v \in {Shl(PageSize, o) : o \in Orders}
          /\ scull_quantum' = v
          /\ UNCHANGED <<scull_order, scull_qset>>
       \/ /\ what = 0 /\ variant # "scullc" /\ v \in Orders
          /\ scull_order' = v
          /\ UNCHANGED <<scull_quantum, scull_qset>>
       \/ /\ what = 1 /\ v \in Qsets
          /\ scull_qset' = v
          /\ UNCHANGED <<scull_quantum, scull_order>>
    /\ Return(p, "ioctl", 0, 0, what, NoPage, 0, <<>>)
    /\ Spend("ioctl")
    /\ UNCHANGED <<usb, variant, cache_size, dev, lock, oob, procs, pc, f_pos, nvma, rt>>

\* mmap (scullc has none): on success the VMA is opened
Mmap(p) ==
    /\ Free(p, "mmap")
    /\ variant # "scullc"
    /\ LET e == MmapEffect(dev)
       IN  /\ dev' = e.dev
           /\ nvma' = [nvma EXCEPT ![p] = IF e.ret = 0 THEN @ + 1 ELSE @]
           /\ Return(p, "mmap", 0, 0, 0, NoPage, e.ret, <<>>)
    /\ Spend("mmap")
    /\ UNCHANGED <<usb, variant, scull_quantum, scull_order, scull_qset, cache_size,
                   lock, oob, procs, pc, f_pos, rt>>

\* munmap of one mapping: the VMA is closed
VmaClose(p) ==
    /\ Free(p, "munmap")
    /\ nvma[p] > 0
    /\ dev' = [dev EXCEPT !.vmas = @ - 1]
    /\ nvma' = [nvma EXCEPT ![p] = @ - 1]
    /\ Return(p, "munmap", 0, 0, 0, NoPage, 0, <<>>)
    /\ Spend("munmap")
    /\ UNCHANGED <<usb, variant, scull_quantum, scull_order, scull_qset, cache_size,
                   lock, oob, procs, pc, f_pos, rt>>

(* the same handlers step by step, for concurrent callers *)

\* dev->vmas++ and dev->vmas-- are plain statements on an int, run without
\* the device lock by callers that hold the locks of different address
\* spaces: a load and a store with whatever the other caller does between
\* them.  The value loaded is kept in op.arg.

\* scullX_mmap up to the load of dev->vmas in vma_open
MmapCall(p) ==
    /\ Free(p, "mmap")
    /\ variant # "scullc"
    /\ Spend("mmap")
    /\ IF MmapEffect(dev).ret # 0
       THEN /\ Return(p, "mmap", 0, 0, 0, NoPage, MmapEffect(dev).ret, <<>>)
            /\ UNCHANGED pc
       ELSE /\ op' = [op EXCEPT ![p] = Entered("mmap", 0, 0, <<>>, dev.vmas)]
            /\ pc' = [pc EXCEPT ![p] = "vmas"]
            /\ UNCHANGED <<ret, rbuf>>
    /\ UNCHANGED <<usb, variant, scull_quantum, scull_order, scull_qset, cache_size, dev,
                   lock, oob, procs, f_pos, nvma, rt>>

\* munmap of one mapping, up to the load of dev->vmas in vma_close
VmaCloseCall(p) ==
    /\ Free(p, "munmap")
    /\ nvma[p] > 0
    /\ Spend("munmap")
    /\ op' = [op EXCEPT ![p] = Entered("munmap", 0, 0, <<>>, dev.vmas)]
    /\ pc' = [pc EXCEPT ![p] = "vmas"]
    /\ UNCHANGED <<usb, variant, scull_quantum, scull_order, scull_qset, cache_size, dev,
                   lock, oob, procs, f_pos, ret, rbuf, nvma, rt>>

\* the store, if vma_open and vma_close took the device lock for it
VmasStore_Locked(p) ==
    /\ p \in procs /\ pc[p] = "vmas"
    /\ lock = 1
    /\ LET by == IF op[p].name = "mmap" THEN 1 ELSE -1
       IN  /\ dev' = [dev EXCEPT !.vmas = op[p].arg + by]
           /\ nvma' = [nvma EXCEPT ![p] = @ + by]
    /\ pc' = [pc EXCEPT ![p] = "idle"]
    /\ Return(p, op[p].name, 0, 0, 0, NoPage, 0, <<>>)
    /\ UNCHANGED <<usb, variant, scull_quantum, scull_order, scull_qset, cache_size,
                   lock, oob, procs, budget, f_pos, rt>>

\* the store of dev->vmas++ or dev->vmas--, and the return of the call
VmasStore(p) ==
    /\ p \in procs /\ pc[p] = "vmas"
    /\ LET by == IF op[p].name = "mmap" THEN 1 ELSE -1
       IN  /\ dev' = [dev EXCEPT !.vmas = op[p].arg + by]
           /\ nvma' = [nvma EXCEPT ![p] = @ + by]
    /\ pc' = [pc EXCEPT ![p] = "idle"]
    /\ Return(p, op[p].name, 0, 0, 0, NoPage, 0, <<>>)
    /\ UNCHANGED <<usb, variant, scull_quantum, scull_order, scull_qset, cache_size,
                   lock, oob, procs, budget, f_pos, rt>>

\* entry of read, write, a write-only open and the fault handler: the
\* locals are read from the device before the lock is taken
Call(p, name, pos, count, buf, arg) ==
    /\ Free(p, name)
    /\ name = "fault" => nvma[p] > 0
    /\ pc' = [pc EXCEPT ![p] = "wait"]
    /\ f_pos' = [f_pos EXCEPT ![p] = pos]
    /\ op' = [op EXCEPT ![p] = Entered(name, pos, count, buf, arg)]
    /\ rbuf' = [rbuf EXCEPT ![p] = <<>>]
    /\ Spend(name)
    /\ UNCHANGED <<usb, variant, scull_quantum, scull_order, scull_qset, cache_size,
                   dev, lock, oob, procs, ret, nvma, rt>>

\* taking the lock, if a held lock did not make the caller wait
Acquire_NoWait(p) ==
    /\ p \in procs
    /\ pc[p] = "wait"
    /\ lock' = lock - 1
    /\ pc' = [pc EXCEPT ![p] = "locked"]
    /\ UNCHANGED <<usb, variant, scull_quantum, scull_order, scull_qset, cache_size,
                   dev, oob, procs, budget, op, f_pos, ret, rbuf, nvma, rt>>

\* down_interruptible / mutex_lock_interruptible / mutex_lock succeed
Acquire(p) ==
    /\ p \in procs
    /\ pc[p] = "wait"
    /\ lock > 0
    /\ lock' = lock - 1
    /\ pc' = [pc EXCEPT ![p] = "locked"]
    /\ UNCHANGED <<usb, variant, scull_quantum, scull_order, scull_qset, cache_size,
                   dev, oob, procs, budget, op, f_pos, ret, rbuf, nvma, rt>>

\* a cancelled lock wait, if the caller went through its unlock all the same
Interrupt_Unlocks(p) ==
    /\ p \in procs
    /\ pc[p] = "wait"
    /\ lock = 0
    /\ op[p].name # "fault"
    /\ pc' = [pc EXCEPT ![p] = "idle"]
    /\ lock' = lock + 1
    /\ Return(p, op[p].name, op[p].pos, op[p].count, 0, NoPage, -ERESTARTSYS, <<>>)
    /\ UNCHANGED <<usb, variant, scull_quantum, scull_order, scull_qset, cache_size,
                   dev, oob, procs, budget, f_pos, nvma, rt>>

\* the sleep of an interruptible lock wait is cancelled by a signal
\* (the fault handler uses mutex_lock, which is not interruptible)
Interrupt(p) ==
    /\ p \in procs
    /\ pc[p] = "wait"
    /\ lock = 0
    /\ op[p].name # "fault"
    /\ pc' = [pc EXCEPT ![p] = "idle"]
    /\ Return(p, op[p].name, op[p].pos, op[p].count, 0, NoPage, -ERESTARTSYS, <<>>)
    /\ UNCHANGED <<usb, variant, scull_quantum, scull_order, scull_qset, cache_size,
                   dev, lock, oob, procs, budget, f_pos, nvma, rt>>

\* follow: dev->next = kmalloc(...); when it fails the memset oopses
FollowKmalloc(p) ==
    /\ p \in procs
    /\ pc[p] = "locked"
    /\ op[p].name \in {"read", "write"}
    /\ NeedSeg(dev, op[p].name, f_pos[p], op[p].quantum, op[p].qset)
    /\ \/ /\ dev' = [dev EXCEPT !.segs = Append(@, RawSeg)]
          /\ pc' = [pc EXCEPT ![p] = "memset"]
          /\ UNCHANGED <<lock, oob, op, ret, rbuf>>
       \/ Oops(p) /\ UNCHANGED op
    /\ UNCHANGED <<usb, variant, scull_quantum, scull_order, scull_qset, cache_size,
                   procs, budget, f_pos, nvma, rt>>

\* follow: memset(dev->next, 0, ...)
FollowMemset(p) ==
    /\ p \in procs
    /\ pc[p] = "memset"
    /\ dev' = [dev EXCEPT !.segs[Len(dev.segs)] = ZeroSeg]
    /\ pc' = [pc EXCEPT ![p] = "locked"]
    /\ UNCHANGED <<usb, variant, scull_quantum, scull_order, scull_qset, cache_size,
                   lock, oob, procs, budget, op, f_pos, ret, rbuf, nvma, rt>>

\* the rest of read, up to and including the unlock
ReadBody(p) ==
    /\ p \in procs
    /\ pc[p] = "locked"
    /\ op[p].name = "read"
    /\ ~NeedSeg(dev, "read", f_pos[p], op[p].quantum, op[p].qset)
    /\ \E g \in ReadGarbage(dev, f_pos[p], op[p].count, op[p].quantum, op[p].qset) :
         LET e == ReadEffect(dev, f_pos[p], op[p].count, op[p].quantum, op[p].qset, g)
         IN  /\ dev' = e.dev
             /\ f_pos' = [f_pos EXCEPT ![p] = e.pos]
             /\ oob' = (oob \/ e.oob)
             /\ Return(p, "read", op[p].pos, op[p].count, 0, NoPage, e.ret, e.data)
    /\ lock' = lock + 1
    /\ pc' = [pc EXCEPT ![p] = "idle"]
    /\ UNCHANGED <<usb, variant, scull_quantum, scull_order, scull_qset, cache_size,
                   procs, budget, nvma, rt>>

\* the rest of write, up to and including the unlock
WriteBody(p) ==
    /\ p \in procs
    /\ pc[p] = "locked"
    /\ op[p].name = "write"
    /\ ~NeedSeg(dev, "write", f_pos[p], op[p].quantum, op[p].qset)
    /\ \E aok \in ArrOutcomes(dev, f_pos[p], op[p].quantum, op[p].qset),
          bok \in BlockOutcomes(dev, f_pos[p], op[p].quantum, op[p].qset),
          g \in WriteGarbage(dev, f_pos[p], op[p].quantum, op[p].qset) :
         LET e == WriteEffect(dev, f_pos[p], op[p].count, op[p].buf,
                              op[p].quantum, op[p].qset, aok, bok, g)
         IN  /\ dev' = e.dev
             /\ f_pos' = [f_pos EXCEPT ![p] = e.pos]
             /\ oob' = (oob \/ e.oob)
             /\ Return(p, "write", op[p].pos, op[p].count, 0, NoPage, e.ret, <<>>)
    /\ lock' = lock + 1
    /\ pc' = [pc EXCEPT ![p] = "idle"]
    /\ UNCHANGED <<usb, variant, scull_quantum, scull_order, scull_qset, cache_size,
                   procs, budget, nvma, rt>>

\* the rest of a write-only open: trim, unlock, return 0
TrimBody(p) ==
    /\ p \in procs
    /\ pc[p] = "locked"
    /\ op[p].name = "trunc"
    /\ LET e == TrimEffect(dev)
       IN  /\ dev' = e.dev
           /\ Return(p, "trunc", 0, 0, e.ret, NoPage, 0, <<>>)
    /\ lock' = lock + 1
    /\ pc' = [pc EXCEPT ![p] = "idle"]
    /\ UNCHANGED <<usb, variant, scull_quantum, scull_order, scull_qset, cache_size,
                   oob, procs, budget, f_pos, nvma, rt>>

\* the rest of the fault handler, up to and including the unlock
FaultBody(p) ==
    /\ p \in procs
    /\ pc[p] = "locked"
    /\ op[p].name = "fault"
    /\ LET e == FaultEffect(dev, op[p].arg * PageSize)
       IN  /\ dev' = e.dev
           /\ oob' = (oob \/ e.oob)
           /\ Return(p, "fault", 0, 0, op[p].arg, e.page, e.ret, <<>>)
    /\ lock' = lock + 1
    /\ pc' = [pc EXCEPT ![p] = "idle"]
    /\ UNCHANGED <<usb, variant, scull_quantum, scull_order, scull_qset, cache_size,
                   procs, budget, f_pos, nvma, rt>>

(* --------------------- the address translation alone ------------------- *)

\* the head of read and write for a device whose quantum and qset are the
\* given ones, up to the call of follow: a division by an itemsize of 0
\* traps, and follow(dev, item) with a negative item does not come back
\* (n-- never reaches 0 before memory runs out); otherwise follow is
\* called with item, kept in ret
Xlate(p, pos, quantum, qset) ==
    /\ Free(p, "xlate")
    /\ Spend("xlate")
    /\ op' = [op EXCEPT ![p] = [NoOp EXCEPT !.name = "xlate", !.pos = pos,
                                            !.quantum = quantum, !.qset = qset]]
    /\ IF ItemSize(quantum, qset) = 0
       THEN pc' = [pc EXCEPT ![p] = "oops"] /\ UNCHANGED ret
       ELSE IF Translate(pos, quantum, qset).item < 0
       THEN pc' = [pc EXCEPT ![p] = "oops"] /\ UNCHANGED ret
       ELSE /\ ret' = [ret EXCEPT ![p] = Translate(pos, quantum, qset).item]
            /\ UNCHANGED pc
    /\ UNCHANGED <<usb, variant, scull_quantum, scull_order, scull_qset, cache_size, dev,
                   lock, oob, procs, f_pos, rbuf, nvma, rt>>

(* ------------------------- round-trip client --------------------------- *)
(* A user program: write(fd, data + done, n - done) at offset o + done     *)
(* until all n bytes are written, then read(fd, got + done, n - done) from *)
(* offset o + done until n bytes are back or read returns 0.               *)

\* rt.empty: the client starts on an empty device (size 0, the head alone,
\* no block array)

\* the string of n bytes the client writes: 1, 2, ..., n
RtData(n) == [k \in 1..n |-> k]

\* the tail of a sequence from index k + 1
Tail_(seq, k) == [j \in 1..(Len(seq) - k) |-> seq[k + j]]

RtStart(p, o, n) ==
    /\ Idle(p)
    /\ rt.phase = "off"
    /\ rt' = [phase |-> IF n = 0 THEN "done" ELSE "w", o |-> o, data |-> RtData(n),
              done |-> 0, got |-> <<>>,
              empty |-> (dev.size = 0 /\ dev.segs = <<ZeroSeg>>)]
    /\ UNCHANGED <<usb, variant, scull_quantum, scull_order, scull_qset, cache_size, dev,
                   lock, oob, procs, budget, pc, op, f_pos, ret, rbuf, nvma>>

\* one write of the loop; an error (or a crash in the kernel) ends the client
RtWrite(p) ==
    /\ rt.phase = "w"
    /\ DoWrite(p, rt.o + rt.done, Tail_(rt.data, rt.done))
    /\ rt' = IF pc'[p] # "idle" \/ ret'[p] < 0
             THEN [rt EXCEPT !.phase = "fail"]
             ELSE IF rt.done + ret'[p] = Len(rt.data)
             THEN [rt EXCEPT !.phase = "r", !.done = 0]
             ELSE [rt EXCEPT !.done = @ + ret'[p]]
    /\ UNCHANGED budget

\* one read of the loop; a read of 0 bytes ends it early
RtRead(p) ==
    /\ rt.phase = "r"
    /\ DoRead(p, rt.o + rt.done, Len(rt.data) - rt.done)
    /\ rt' = IF pc'[p] # "idle" \/ ret'[p] < 0
             THEN [rt EXCEPT !.phase = "fail"]
             ELSE IF ret'[p] = 0
             THEN [rt EXCEPT !.phase = "short"]
             ELSE IF rt.done + ret'[p] = Len(rt.data)
             THEN [rt EXCEPT !.phase = "done", !.done = @ + ret'[p],
                             !.got = @ \o rbuf'[p]]
             ELSE [rt EXCEPT !.done = @ + ret'[p], !.got = @ \o rbuf'[p]]
    /\ UNCHANGED budget

(* --------------------------- specifications ---------------------------- *)

Counts == 0..MaxCount
\* filp->f_flags & O_ACCMODE: read-only, write-only, read-write
AccModes == 0..2
Positions == 0..MaxPos
Pages == 0..(MaxPos \div PageSize)

\* seek arguments: absolute, relative to the position and to the size, and
\* a whence that does not exist
Seeks == {<<off, w>> : off \in {-1, 0, PageSize}, w \in 0..3}

\* the file positions a seek starts from
SeekFrom == {0, MaxPos}

\* the calls that take no lock
Unlocked(p) ==
    \/ \E cur \in SeekFrom, sk \in Seeks : Llseek(p, cur, sk[1], sk[2])
    \/ \E what \in 0..1, v \in 0..Shl(PageSize, MaxOrder) : Ioctl(p, what, v)
    \/ Mmap(p)
    \/ VmaClose(p)

Next ==
    \E p \in Procs :
        \/ \E pos \in Positions, c \in Counts : Read(p, pos, c)
        \/ \E pos \in Positions, b \in Bufs : Write(p, pos, b)
        \/ \E flags \in AccModes : Open(p, flags)
        \/ \E pg \in Pages : Fault(p, pg)
        \/ Unlocked(p)

\* the concurrent callers work at the first and the last position
ConcPositions == {0, MaxPos}

NextConc ==
    \E p \in Procs :
        \/ \E pos \in ConcPositions : Call(p, "read", pos, 1, <<>>, 0)
        \/ \E pos \in ConcPositions : Call(p, "write", pos, 1, <<1>>, 0)
        \/ Call(p, "trunc", f_pos[p], 0, <<>>, 0)
        \/ \E pg \in {pos \div PageSize : pos \in ConcPositions} :
              Call(p, "fault", f_pos[p], 0, <<>>, pg)
        \/ \E what \in 0..1, v \in 0..Shl(PageSize, MaxOrder) : Ioctl(p, what, v)
        \/ MmapCall(p) \/ VmaCloseCall(p) \/ VmasStore(p)
        \/ Acquire(p) \/ Interrupt(p)
        \/ FollowKmalloc(p) \/ FollowMemset(p)
        \/ ReadBody(p) \/ WriteBody(p) \/ TrimBody(p) \/ FaultBody(p)

Spec == Init /\ [][Next]_vars

\* a round trip on every device state that a few calls produce
InitRT == InitCommon /\ procs = {1} /\ budget = MaxOpsRT

NextRT ==
    \E p \in Procs :
        \/ \E pos \in Positions, b \in Bufs : Write(p, pos, b)
        \/ Open(p, O_WRONLY)
        \/ \E what \in 0..1, v \in 0..Shl(PageSize, MaxOrder) : Ioctl(p, what, v)
        \/ \E o \in Positions, n \in 0..MaxRtLen : RtStart(p, o, n)
        \/ RtWrite(p)
        \/ RtRead(p)

SpecRT == InitRT /\ [][NextRT]_vars

SpecConc == InitConc /\ [][NextConc]_vars

\* fair scheduling: a caller that can go on inside a handler does go on, and
\* a caller in a lock wait gets the lock if the lock is free again and again
\* (the wait queues of the semaphore and of the mutex are first-in first-out)
Fairness ==
    \A p \in Procs :
        /\ WF_vars(FollowKmalloc(p) \/ FollowMemset(p) \/ ReadBody(p) \/ WriteBody(p)
                     \/ TrimBody(p) \/ FaultBody(p) \/ VmasStore(p))
        /\ SF_vars(Acquire(p))

SpecConcFair == SpecConc /\ Fairness

\* the largest long
LongMax == 2 ^ (LongWidth - 1) - 1

\* file positions and seek arguments up to the ends of the long
LongSeekFrom == {0, 1, LongMax - 1, LongMax}
LongSeeks == {<<off, w>> : off \in {-LongMax - 1, -1, 0, 1, LongMax}, w \in 0..2}

\* the translation of any position with any quantum and qset of the bounds
XlateAny(p) ==
    /\ budget >= Cost("xlate")
    /\ \E pos \in 0..MaxXlatePos, quantum \in 1..MaxXlate, qset \in 1..MaxXlate :
          Xlate(p, pos, quantum, qset)

\* the address translation for every position, quantum and qset up to the
\* bounds, and seeks that reach the ends of the long
NextXlate ==
    \E p \in Procs :
        \/ XlateAny(p)
        \/ \E cur \in LongSeekFrom, sk \in LongSeeks : Llseek(p, cur, sk[1], sk[2])

InitXlate == InitCommon /\ procs = {1} /\ budget = MaxOpsXlate

SpecXlate == InitXlate /\ [][NextXlate]_vars

\* two callers that write the first byte of the device, map it, fault on
\* its first page, unmap it and open it write-only
NextMap ==
    \E p \in Procs :
        \/ Call(p, "write", 0, 1, <<1>>, 0)
        \/ Call(p, "trunc", f_pos[p], 0, <<>>, 0)
        \/ Call(p, "fault", f_pos[p], 0, <<>>, 0)
        \/ MmapCall(p) \/ VmaCloseCall(p) \/ VmasStore(p)
        \/ Acquire(p)
        \/ WriteBody(p) \/ TrimBody(p) \/ FaultBody(p)

InitMap == InitCommon /\ procs = Procs /\ budget = MaxOpsMap

SpecMap == InitMap /\ [][NextMap]_vars

\* the offsets of the calls with user buffers that may be unmapped: the
\* first block, inside it, and the last position
CopyPositions == {0, 1, MaxPos}

\* one caller that reads and writes with user buffers that may be unmapped
NextCopy ==
    \E p \in Procs :
        \/ \E pos \in CopyPositions, c \in Counts : Read(p, pos, c)
        \/ \E pos \in CopyPositions, b \in Bufs : Write(p, pos, b)
        \/ \E pos \in CopyPositions, c \in Counts : ReadBad(p, pos, c)
        \/ \E pos \in CopyPositions, b \in Bufs, k \in 0..(MaxCount - 1) :
              WriteBad(p, pos, b, k)

InitCopy == InitCommon /\ procs = {1} /\ budget = MaxOpsCopy

SpecCopy == InitCopy /\ [][NextCopy]_vars

(* --------------------------- the USB skeleton -------------------------- *)

\* skel_delete: the device reference, the receive buffer and the record
\* are released
SkelDelete(u) == [u EXCEPT !.rec = "freed", !.deleted = @ + 1]

\* kref_get(&dev->kref) through a pointer to the record
KrefGet(u) ==
    IF u.rec # "live" THEN [u EXCEPT !.stale = TRUE]
    ELSE [u EXCEPT !.kref = @ + 1]

\* kref_put, if the release function ran on every put
KrefPut_Always(u) ==
    IF u.rec # "live" THEN [u EXCEPT !.stale = TRUE]
    ELSE SkelDelete([u EXCEPT !.kref = @ - 1])

\* kref_put(&dev->kref, skel_delete): the last reference runs skel_delete
KrefPut(u) ==
    IF u.rec # "live" THEN [u EXCEPT !.stale = TRUE]
    ELSE IF u.kref = 1 THEN SkelDelete([u EXCEPT !.kref = 0])
    ELSE [u EXCEPT !.kref = @ - 1]

\* a call of caller p returned r
UsbDone(u, p, name, r) == [u EXCEPT !.call[p] = name, !.fret[p] = r]

\* the variables of the scull devices, which the USB skeleton leaves alone
ScullVars == <<variant, scull_quantum, scull_order, scull_qset, cache_size, dev,
               lock, oob, procs, pc, op, f_pos, ret, rbuf, nvma, rt>>

\* a step of the USB skeleton that starts a call (cost 1) or continues one
UsbStep(cost) ==
    /\ budget >= cost
    /\ budget' = budget - cost
    /\ UNCHANGED ScullVars

\* skel_probe, with the point at which it fails: "dev" the allocation of
\* the record, "buffer" the receive buffer or the endpoints, "minor" the
\* registration; every failure after kref_init drops the only reference
Probe(fail) ==
    /\ usb.rec = "none" /\ usb.disc = "unbound"
    /\ usb' = CASE fail = "dev" -> usb
                [] fail = "buffer" -> KrefPut([usb EXCEPT !.rec = "live", !.kref = 1])
                [] fail = "minor" -> KrefPut([usb EXCEPT !.rec = "live", !.kref = 1])
                [] OTHER -> [usb EXCEPT !.rec = "live", !.kref = 1, !.intfdata = TRUE,
                                        !.minor = TRUE, !.disc = "bound"]
    /\ UsbStep(1)

\* open(2) on the device node: without a registered minor the open fails
\* with -ENODEV (in the USB core, or at usb_find_interface); else skel_open
\* has its interface
OpenFind(p) ==
    /\ p \in procs /\ usb.file[p] = "closed"
    /\ usb' = IF usb.minor THEN [usb EXCEPT !.file[p] = "opening"]
              ELSE UsbDone(usb, p, "open", -ENODEV)
    /\ UsbStep(1)

\* skel_open: dev = usb_get_intfdata(interface); NULL is -ENODEV
OpenData(p) ==
    /\ p \in procs /\ usb.file[p] = "opening"
    /\ usb' = IF usb.intfdata THEN [usb EXCEPT !.file[p] = "got"]
              ELSE UsbDone([usb EXCEPT !.file[p] = "closed"], p, "open", -ENODEV)
    /\ UsbStep(0)

\* skel_open: kref_get, file->private_data = dev, return 0
OpenRef(p) ==
    /\ p \in procs /\ usb.file[p] = "got"
    /\ usb' = UsbDone(KrefGet([usb EXCEPT !.file[p] = "open"]), p, "open", 0)
    /\ UsbStep(0)

\* skel_release of a file that skel_open filled in
Release(p) ==
    /\ p \in procs /\ usb.file[p] = "open"
    /\ usb' = UsbDone(KrefPut([usb EXCEPT !.file[p] = "closed"]), p, "release", 0)
    /\ UsbStep(1)

\* skel_disconnect: dev = usb_get_intfdata; usb_set_intfdata(NULL)
DiscClear ==
    /\ usb.disc = "bound"
    /\ usb' = [usb EXCEPT !.intfdata = FALSE, !.disc = "cleared"]
    /\ UsbStep(1)

\* usb_deregister_dev, if it did not wait for the opens in progress
DiscDeregister_NoWait ==
    /\ usb.disc = "cleared"
    /\ usb' = [usb EXCEPT !.minor = FALSE, !.disc = "unreg"]
    /\ UsbStep(0)

\* skel_disconnect: usb_deregister_dev gives the minor back; it takes the
\* minor lock of the USB core for writing, which the core holds for reading
\* around every skel_open, so it waits for the opens in progress
DiscDeregister ==
    /\ usb.disc = "cleared"
    /\ \A p \in procs : usb.file[p] \notin {"opening", "got"}
    /\ usb' = [usb EXCEPT !.minor = FALSE, !.disc = "unreg"]
    /\ UsbStep(0)

\* skel_disconnect: kref_put of the reference of skel_probe
DiscPut ==
    /\ usb.disc = "unreg"
    /\ usb' = KrefPut([usb EXCEPT !.disc = "done"])
    /\ UsbStep(0)

\* the error path of skel_write: usb_free_coherent(dev->udev, count, buf,
\* urb->transfer_dma), which reads through urb; usb_free_urb(urb);
\* kfree(buf).  The frees of a NULL pointer do nothing.
WriteError(u, haveUrb, haveBuf) ==
    IF ~haveUrb THEN [u EXCEPT !.wnull = TRUE]
    ELSE [u EXCEPT !.buffree = IF haveBuf THEN @ + 2 ELSE @,
                   !.urbrefs = @ - 1,
                   !.urbfree = @ + 1]

\* skel_write of count bytes; fail names the step that fails ("none": the
\* urb is submitted and the USB core holds a reference on it)
WriteEffectUsb(u0, count, fail) ==
    LET u == [u0 EXCEPT !.wcount = count, !.wfail = IF count = 0 THEN "none" ELSE fail,
                        !.urballoc = 0, !.urbrefs = 0,
                        !.urbfree = 0, !.bufalloc = 0, !.buffree = 0]
        u1 == [u EXCEPT !.urballoc = 1, !.urbrefs = 1]
        u2 == [u1 EXCEPT !.bufalloc = 1]
        Ret(v, r) == [usb |-> [v EXCEPT !.wret = r], ret |-> r]
    IN  IF count = 0 THEN Ret(u, 0)
        ELSE IF fail = "urb" THEN Ret(WriteError(u, FALSE, FALSE), -ENOMEM)
        ELSE IF fail = "buf" THEN Ret(WriteError(u1, TRUE, FALSE), -ENOMEM)
        ELSE IF fail = "copy" THEN Ret(WriteError(u2, TRUE, TRUE), -EFAULT)
        ELSE IF fail = "submit" THEN Ret(WriteError(u2, TRUE, TRUE), -ENODEV)
        ELSE Ret([u2 EXCEPT !.flight = TRUE, !.urbrefs = 1], count)

\* skel_write on an open file, one transfer at a time
WriteUsb(p, count, fail) ==
    /\ p \in procs /\ usb.file[p] = "open"
    /\ ~usb.flight /\ ~usb.wnull
    /\ LET e == WriteEffectUsb(usb, count, fail)
       IN  usb' = UsbDone(e.usb, p, "write", e.ret)
    /\ UsbStep(1)

\* the transfer completes: skel_write_bulk_callback frees the buffer, then
\* the USB core drops its reference on the urb
WriteCallback ==
    /\ usb.flight
    /\ usb' = [usb EXCEPT !.flight = FALSE, !.buffree = @ + 1, !.urbrefs = 0,
                          !.urbfree = @ + 1]
    /\ UsbStep(0)

\* the points at which skel_probe and skel_write can fail
ProbeFails == {"none", "dev", "buffer", "minor"}
WriteFails == {"none", "urb", "buf", "copy", "submit"}

NextUsb ==
    \/ \E fail \in ProbeFails : Probe(fail)
    \/ DiscClear \/ DiscDeregister \/ DiscPut
    \/ WriteCallback
    \/ \E p \in Procs :
        \/ OpenFind(p) \/ OpenData(p) \/ OpenRef(p)
        \/ Release(p)
        \/ \E count \in 0..MaxUsbCount, fail \in WriteFails : WriteUsb(p, count, fail)

\* the module is loaded, no device is plugged in; the scull devices are
\* not used
InitUsb ==
    /\ InitCommon
    /\ variant = "scullc" /\ scull_quantum = PageSize /\ scull_qset = 1
    /\ procs = Procs /\ budget = MaxOpsUsb

SpecUsb == InitUsb /\ [][NextUsb]_vars

(* ------------------------------ properties ----------------------------- *)

(* helpers of the properties *)

\* the step is a call of p to the handler `name` (in the sequential
\* specifications, where a call is one step)
Step(p, name) ==
    pc[p] = "idle" /\ op'[p].name = name /\ budget' = budget - Cost(name)

\* offset o has no block behind it: its list item, block array or block is
\* missing
Hole(d, o) ==
    LET t == Translate(o, Quantum(d), d.qset)
    IN  \/ t.item + 1 > Len(d.segs)
        \/ ~d.segs[t.item + 1].has
        \/ ~InArr(d.segs[t.item + 1].data, t.s_pos)
        \/ ~d.segs[t.item + 1].data[t.s_pos + 1].alloc

\* the blocks of the device, as <<list item, slot>> pairs
Blocks(d) ==
    {<<i, k>> \in (1..Len(d.segs)) \X (1..MaxQset) :
        d.segs[i].has /\ InArr(d.segs[i].data, k - 1) /\ d.segs[i].data[k].alloc}

\* the processes inside the locked section of a handler
InLock == {p \in procs : pc[p] \in {"locked", "memset", "oops"}}

\* C1: round trip.  Whenever the client has written its n bytes at offset o
\* by looping write and has then looped read from o, it got n bytes back and
\* they are the bytes it wrote (in all three variants).
C1_RoundTrip ==
    rt.phase \in {"done", "short"} => rt.phase = "done" /\ rt.got = rt.data

\* C2: a trim while mapping_count > 0 returns -EBUSY and changes nothing in
\* the device; mapping_count is the number of open mappings, so with two
\* mappings trim is refused until both are closed, and once no mapping is
\* left it succeeds and the size is 0.
C2_TrimBusy ==
    [][\A p \in Procs :
        /\ dev'.vmas = nvma'[1] + nvma'[2]
        /\ Step(p, "trunc") =>
             IF nvma[1] + nvma[2] > 0
             THEN op'[p].arg = -EBUSY /\ dev' = dev
             ELSE op'[p].arg = 0 /\ dev'.size = 0]_vars

\* two mappings are open on a device that holds data, and the trim of a
\* write-only open was refused
C2_Witness ==
    /\ op[1].name = "trunc" /\ op[1].arg = -EBUSY
    /\ nvma[1] = 2
    /\ dev.size > 0

\* C3: after a successful trim the device has size 0, the head alone with no
\* block array and no block, and the quantum/order and qset of the current
\* defaults; a read at any offset right after it returns 0 bytes.
C3_TrimEmpties ==
    [][\A p \in Procs :
        /\ (Step(p, "trunc") /\ dev.vmas = 0) =>
              /\ op'[p].arg = 0
              /\ dev'.size = 0
              /\ dev'.segs = <<ZeroSeg>>
              /\ Blocks(dev') = {}
              /\ dev'.qset = scull_qset
              /\ IF variant = "scullc" THEN dev'.quantum = scull_quantum
                                       ELSE dev'.order = scull_order
        /\ (op[p].name = "trunc" /\ op[p].arg = 0 /\ Step(p, "read")) =>
              pc'[p] = "idle" /\ ret'[p] = 0 /\ rbuf'[p] = <<>>]_vars

\* a trim has emptied a device that held data in a second list item
C3_Witness ==
    /\ op[1].name = "trunc" /\ op[1].arg = 0
    /\ op[1].size > Quantum(dev) * dev.qset
    /\ dev.size = 0

\* C4: at most one caller is inside the locked section of read, write, trim
\* or the fault handler, and the lock is held exactly then; the fault handler
\* is never inside it while a writer has linked a list item that it has not
\* zeroed yet.
C4_MutualExclusion ==
    /\ Cardinality(InLock) <= 1
    /\ lock = 1 - Cardinality(InLock)
    /\ \A p \in procs :
         (pc[p] = "locked" /\ op[p].name = "fault") =>
             /\ \A q \in procs : pc[q] # "memset"
             /\ \A i \in 1..Len(dev.segs) : dev.segs[i].zeroed

\* a writer is between linking and zeroing a list item while a fault waits
\* for the lock
C4_Witness ==
    \E p, q \in procs :
        /\ pc[p] = "memset" /\ op[p].name = "write"
        /\ pc[q] = "wait" /\ op[q].name = "fault"
        /\ ~dev.segs[Len(dev.segs)].zeroed

\* C5: after a write that returned n >= 0 at offset o the size is at least
\* o + n, and the size never decreases except in a successful trim.
C5_MonotonicSize ==
    [][\A p \in Procs :
        /\ (Step(p, "write") /\ pc'[p] = "idle" /\ ret'[p] >= 0) =>
              dev'.size >= op'[p].pos + ret'[p]
        /\ dev'.size < dev.size =>
              \E q \in Procs : Step(q, "trunc") /\ dev.vmas = 0]_vars

\* a write has extended a device that held data, and a write below the size
\* has left the size alone
C5_Witness ==
    /\ op[1].name = "write" /\ ret[1] > 0
    /\ op[1].size > 0
    /\ \/ dev.size = op[1].pos + ret[1] /\ dev.size > op[1].size
       \/ dev.size = op[1].size /\ dev.size > op[1].pos + ret[1]

\* C6: a read of len bytes at offset o returns k bytes with k <= len and
\* o + k <= size (for the bytes it returns); at or beyond the size it
\* returns 0, no error, and leaves the file position where it was.
C6_ReadBounds ==
    [][\A p \in Procs :
        Step(p, "read") =>
            LET o == op'[p].pos
                k == ret'[p]
            IN  /\ pc'[p] = "idle"
                /\ k >= 0 => k <= op'[p].count /\ (k > 0 => o + k <= dev.size)
                /\ o >= dev.size => k = 0 /\ f_pos'[p] = o]_vars

\* C7: a read at an offset below the size whose list item has no block
\* array, or whose block is missing, returns 0 bytes and leaves the file
\* position; a write into the first block of list item 1 of an empty device
\* (offset 20000 with quantum 4096 and qset 4, in ints wide enough for
\* them) leaves list item 0 without a block array, that block as the only
\* one, the size at the end of the write, and a read at offset 0 returning 0.
C7_Holes ==
    [][\A p \in Procs :
        /\ TranslateW(20000, 4096, 4, 30) = [item |-> 1, s_pos |-> 0, q_pos |-> 3616]
        /\ (Step(p, "read") /\ op'[p].pos < dev.size /\ Hole(dev, op'[p].pos)) =>
              /\ pc'[p] = "idle"
              /\ ret'[p] = 0 /\ rbuf'[p] = <<>>
              /\ f_pos'[p] = op'[p].pos
        /\ ( /\ Step(p, "write") /\ pc'[p] = "idle"
             /\ dev.size = 0 /\ dev.segs = <<ZeroSeg>>
             /\ Translate(op'[p].pos, Quantum(dev), dev.qset).item = 1
             /\ Translate(op'[p].pos, Quantum(dev), dev.qset).s_pos = 0
             /\ ret'[p] = op'[p].count /\ ret'[p] > 0 ) =>
              /\ dev'.size = op'[p].pos + op'[p].count
              /\ Len(dev'.segs) = 2
              /\ ~dev'.segs[1].has
              /\ Blocks(dev') = {<<2, 1>>}
              /\ \A c \in Counts :
                   ReadEffect(dev', 0, c, Quantum(dev), dev.qset, 0).ret = 0]_vars

\* list item 0 has no block array, list item 1 holds the only block, and a
\* read of some bytes at offset 0, below the size, returned 0
C7_Witness ==
    /\ op[1].name = "read" /\ op[1].pos = 0 /\ op[1].count > 0
    /\ dev.size > 0
    /\ Len(dev.segs) = 2 /\ ~dev.segs[1].has /\ Blocks(dev) = {<<2, 1>>}
    /\ ret[1] = 0 /\ f_pos[1] = 0

\* C8: mmap of a device whose order is not 0 fails with -ENODEV and leaves
\* the count of mappings, in scullp and in scullv.
C8_MmapRejected ==
    [][\A p \in Procs :
        (Step(p, "mmap") /\ dev.order # 0) =>
            ret'[p] = -ENODEV /\ dev'.vmas = dev.vmas /\ nvma' = nvma]_vars

\* C9: a fault at a byte offset at or beyond the size, or in a hole, gets no
\* page and changes no reference count; a fault at an offset in an allocated
\* block gets the page of that block that holds the offset, and the
\* reference count of that page, and nothing else, goes up by 1.
C9_FaultResolution ==
    [][\A p \in Procs :
        Step(p, "fault") =>
            LET o == op'[p].arg * PageSize
                t == Translate(o, Quantum(dev), dev.qset)
            IN  IF o >= dev.size \/ Hole(dev, o)
                THEN /\ ret'[p] = VM_FAULT_NOPAGE
                     /\ op'[p].page = NoPage
                     /\ dev' = dev
                ELSE /\ ret'[p] = 0
                     /\ op'[p].page = [seg |-> t.item + 1, slot |-> t.s_pos + 1]
                     /\ t.q_pos < PageSize
                     /\ dev' = [dev EXCEPT
                                  !.segs[t.item + 1].data[t.s_pos + 1].refs = @ + 1]]_vars

\* C10: a read, write or write-only open whose lock wait is cancelled
\* returns -ERESTARTSYS; neither its entry nor its return changes the
\* device, the defaults or the lock, the file position is the one it was
\* entered with, and the caller is not in the locked section.
C10_Interrupted ==
    [][\A p \in Procs :
        /\ (pc[p] = "wait" /\ pc'[p] = "idle") =>
              /\ ret'[p] = -ERESTARTSYS
              /\ f_pos'[p] = op[p].pos
              /\ p \notin InLock'
              /\ dev' = dev /\ lock' = lock
              /\ <<scull_quantum, scull_order, scull_qset>>' =
                   <<scull_quantum, scull_order, scull_qset>>
        /\ (pc[p] = "idle" /\ pc'[p] = "wait") =>
              dev' = dev /\ lock' = lock]_vars

\* a write was cancelled while another caller held the lock inside a write
\* of its own
C10_Witness ==
    \E p, q \in procs :
        /\ pc[p] = "idle" /\ op[p].name = "write" /\ ret[p] = -ERESTARTSYS
        /\ pc[q] \in {"locked", "memset"} /\ op[q].name = "write"
        /\ lock = 0

\* C11: a seek from position cur computes delta (whence 0), cur + delta
\* (whence 1) or size + delta (whence 2); a negative result or another
\* whence gives -EINVAL and leaves the position; otherwise the position
\* becomes the result, which is returned; the device is not changed.
C11_Seek ==
    [][\A p \in Procs :
        Step(p, "llseek") =>
            /\ dev' = dev /\ lock' = lock /\ nvma' = nvma
            /\ <<scull_quantum, scull_order, scull_qset>>' =
                 <<scull_quantum, scull_order, scull_qset>>
            /\ \A cur \in SeekFrom, sk \in Seeks :
                 Llseek(p, cur, sk[1], sk[2]) =>
                     LET base == CASE sk[2] = 0 -> 0
                                   [] sk[2] = 1 -> cur
                                   [] sk[2] = 2 -> dev.size
                                   [] OTHER -> 0
                     IN  IF sk[2] \notin 0..2 \/ base + sk[1] < 0
                         THEN ret'[p] = -EINVAL /\ f_pos'[p] = cur
                         ELSE ret'[p] = base + sk[1] /\ f_pos'[p] = base + sk[1]]_vars

\* a seek of one page beyond the end of a device that holds one byte
C11_Witness ==
    /\ op[1].name = "llseek"
    /\ dev.size = 1
    /\ ret[1] = dev.size + PageSize /\ f_pos[1] = ret[1]

\* C12: a write of length 0 returns 0 and is a no-op: no list item, block
\* array or block is created, and the size and the file position stay.
C12_ZeroWrite ==
    [][\A p \in Procs :
        (Step(p, "write") /\ op'[p].count = 0) =>
            /\ pc'[p] = "idle"
            /\ ret'[p] = 0
            /\ dev' = dev
            /\ f_pos'[p] = op'[p].pos]_vars

\* what is linked in d is still linked in e, and the blocks of d hold the
\* same bytes in e
Kept(d, e) ==
    /\ Len(e.segs) >= Len(d.segs)
    /\ \A i \in 1..Len(d.segs) :
         /\ d.segs[i].has => e.segs[i].has /\ Len(e.segs[i].data) = Len(d.segs[i].data)
         /\ \A k \in 1..Len(d.segs[i].data) :
              d.segs[i].data[k].alloc => e.segs[i].data[k] = d.segs[i].data[k]

\* C13: a write in which an allocation fails (of a list item in follow, of
\* the block array or of the block) returns -ENOMEM with the lock released;
\* the size, the file position and the bytes stored before are unchanged
\* and what was allocated before the failure stays linked.
C13_WriteNoMem ==
    [][\A p \in Procs :
        Step(p, "write") =>
            /\ pc'[p] = "idle" /\ lock' = 1
            /\ ret'[p] < 0 =>
                 /\ ret'[p] = -ENOMEM
                 /\ dev'.size = dev.size
                 /\ f_pos'[p] = op'[p].pos
                 /\ Kept(dev, dev')]_vars

\* C14: for every offset o >= 0 and every positive quantum and qset the
\* translation of read and write yields (item, s_pos, q_pos) with
\* o == item*quantum*qset + s_pos*quantum + q_pos, 0 <= s_pos < qset and
\* 0 <= q_pos < quantum, and no other triple satisfies this.
C14_Translation ==
    \A p \in procs :
        op[p].name = "xlate" =>
            /\ pc[p] = "idle"
            /\ LET o == op[p].pos
                   q == op[p].quantum
                   n == op[p].qset
                   t == Translate(o, q, n)
               IN  /\ ret[p] = t.item
                   /\ o = t.item * q * n + t.s_pos * q + t.q_pos
                   /\ 0 <= t.s_pos /\ t.s_pos < n
                   /\ 0 <= t.q_pos /\ t.q_pos < q
                   /\ \A i \in 0..o, k \in 0..(n - 1), r \in 0..(q - 1) :
                        o = i * q * n + k * q + r =>
                            i = t.item /\ k = t.s_pos /\ r = t.q_pos

\* C15: a write of len bytes at offset o that succeeds copies exactly
\* min(len, quantum - q_pos) bytes of the caller into the target block, from
\* q_pos on, returns that count, advances the file position by it and sets
\* the size to the larger of the old size and o + count; no other byte of
\* the store changes, inside the target block or outside of it.
C15_WriteCopies ==
    [][\A p \in Procs :
        (Step(p, "write") /\ pc'[p] = "idle" /\ ret'[p] >= 0) =>
            LET o == op'[p].pos
                t == Translate(o, Quantum(dev), dev.qset)
                n == Min(op'[p].count, Quantum(dev) - t.q_pos)
                i == t.item + 1
                k == t.s_pos + 1
                was == <<i, k>> \in Blocks(dev)
            IN  /\ ret'[p] = n
                /\ f_pos'[p] = o + n
                /\ dev'.size = (IF o + n > dev.size THEN o + n ELSE dev.size)
                /\ <<i, k>> \in Blocks(dev')
                /\ Len(dev'.segs[i].data[k].bytes) >= t.q_pos + n
                /\ \A b \in Bufs :
                     (Len(b) = op'[p].count /\ DoWrite(p, o, b)) =>
                         \A j \in 1..n : dev'.segs[i].data[k].bytes[t.q_pos + j] = b[j]
                /\ was => \A j \in 1..Len(dev.segs[i].data[k].bytes) :
                            (j <= t.q_pos \/ j > t.q_pos + n) =>
                                /\ j <= Len(dev'.segs[i].data[k].bytes)
                                /\ dev'.segs[i].data[k].bytes[j] = dev.segs[i].data[k].bytes[j]
                /\ \A c \in Blocks(dev) \ {<<i, k>>} :
                     /\ c \in Blocks(dev')
                     /\ dev'.segs[c[1]].data[c[2]] = dev.segs[c[1]].data[c[2]]
                /\ oob' = oob]_vars

\* C16: a single read and a single write transfer k bytes of the range
\* [o, o + k) with k <= quantum - q_pos(o) and k no more than the requested
\* length: every offset of the range lies in the block of o, so the range
\* never crosses a block boundary, whatever the offset and the length are.
C16_OneBlock ==
    [][\A p \in Procs :
        ((Step(p, "read") \/ Step(p, "write")) /\ pc'[p] = "idle" /\ ret'[p] > 0) =>
            LET o == op'[p].pos
                q == Quantum(dev)
                t == Translate(o, q, dev.qset)
                k == ret'[p]
            IN  /\ k <= op'[p].count
                /\ k <= q - t.q_pos
                /\ f_pos'[p] = o + k
                /\ op'[p].name = "read" => Len(rbuf'[p]) = k
                /\ \A j \in 0..(k - 1) :
                     LET u == Translate(o + j, q, dev.qset)
                     IN  u.item = t.item /\ u.s_pos = t.s_pos /\ u.q_pos = t.q_pos + j]_vars

\* a write of two bytes that starts at the last byte of a block was cut to
\* one byte
C16_Witness ==
    /\ op[1].name = "write" /\ pc[1] = "idle"
    /\ op[1].count = 2 /\ ret[1] = 1
    /\ Translate(op[1].pos, Quantum(dev), dev.qset).q_pos = Quantum(dev) - 1

\* C17: mapping_count is adjusted atomically.  Whenever no caller is inside
\* a mapping open or close, dev->vmas is the number of open mappings
\* (accepted opens minus closes) of all callers; it is never negative, and it
\* is 0 exactly when no mapping is open.
C17_MappingCount ==
    /\ dev.vmas >= 0
    /\ (\A p \in procs : pc[p] # "vmas") =>
          /\ dev.vmas = nvma[1] + nvma[2]
          /\ dev.vmas = 0 <=> \A p \in procs : nvma[p] = 0

\* C18: every block that write allocated has exactly the block size of the
\* device (the quantum; PAGE_SIZE << order of the device in the page-based
\* variants), in whatever list item it is and after whatever changes of the
\* defaults and trims, so every allocated block of the store holds quantum
\* bytes.
C18_BlockSize ==
    \A b \in Blocks(dev) : Len(dev.segs[b[1]].data[b[2]].bytes) = Quantum(dev)

\* C19: read walks the list read-only.  For every offset and length a read
\* leaves the number of list items, every block array, every block and the
\* size as they were; only write creates list items.
C19_ReadOnly ==
    [][\A p \in Procs : Step(p, "read") => dev' = dev]_vars

\* the quantum or order and the qset of the device itself
Geometry(d) == <<d.quantum, d.order, d.qset>>

\* C20: the quantum/order and the qset of a device change only inside a
\* successful trim, which runs with mapping_count 0: read, write, seek,
\* mapping open and close, the fault handler, a plain open, a refused trim
\* and the commands that set the defaults leave them as they are.
C20_Geometry ==
    [][/\ Geometry(dev') # Geometry(dev) =>
            \E p \in Procs : Step(p, "trunc") /\ dev.vmas = 0 /\ op'[p].arg = 0
       /\ \A p \in Procs :
            \/ \E n \in {"read", "write", "llseek", "mmap", "munmap", "fault",
                         "open", "ioctl"} : Step(p, n)
            \/ Step(p, "trunc") /\ op'[p].arg # 0
            => Geometry(dev') = Geometry(dev)]_vars

\* a default was changed, and the trim that would have installed it was
\* refused: the device still has its own qset
C20_Witness ==
    /\ op[1].name = "trunc" /\ op[1].arg = -EBUSY
    /\ dev.qset # scull_qset

\* C21: follow(dev, n), as read and write call it, returns the list item of
\* index n; afterwards the list has max(old length, n + 1) items, every new
\* item is zeroed (no block array), the items that existed are unchanged,
\* and no operation but trim makes the list shorter or moves an item.
C21_Follow ==
    [][/\ \A p \in Procs :
            ((Step(p, "read") /\ op'[p].pos <= dev.size) \/ Step(p, "write")) =>
                LET n == Translate(op'[p].pos, Quantum(dev), dev.qset).item
                    old == Len(dev.segs)
                IN  /\ pc'[p] = "idle"
                    /\ Len(dev'.segs) = (IF n + 1 > old THEN n + 1 ELSE old)
                    /\ \A i \in (old + 1)..Len(dev'.segs) :
                         (i # n + 1 \/ op'[p].name = "read") => dev'.segs[i] = ZeroSeg
                    /\ \A i \in 1..old :
                         (i # n + 1 \/ op'[p].name = "read") => dev'.segs[i] = dev.segs[i]
       /\ (\A p \in Procs : ~Step(p, "trunc")) =>
            /\ Len(dev'.segs) >= Len(dev.segs)
            /\ \A i \in 1..Len(dev.segs) :
                 dev.segs[i].has => dev'.segs[i].has]_vars

\* C22: the fault handler and the read path agree.  On a device whose
\* blocks are one page (order 0), for every byte offset o below the size
\* the page that a fault at o gets is the page of the block that read and
\* write address for o (same list item, same slot), and the fault finds no
\* page exactly when a read of one byte at o returns 0 for a missing block.
C22_ResolverAgrees ==
    [][\A p \in Procs :
        (Step(p, "fault") /\ dev.order = 0) =>
            \A r \in 0..(PageSize - 1) :
                LET o == op'[p].arg * PageSize + r
                    t == Translate(o, Quantum(dev), dev.qset)
                    rd == ReadEffect(dev, o, 1, Quantum(dev), dev.qset, 0)
                IN  o < dev.size =>
                        /\ ret'[p] = VM_FAULT_NOPAGE <=> (rd.ret = 0 /\ Hole(dev, o))
                        /\ ret'[p] = VM_FAULT_NOPAGE <=> op'[p].page = NoPage
                        /\ ret'[p] # VM_FAULT_NOPAGE =>
                             /\ ret'[p] = 0 /\ rd.ret = 1
                             /\ op'[p].page = [seg |-> t.item + 1, slot |-> t.s_pos + 1]]_vars

\* a fault below the size got the page of a block of list item 1
C22_Witness ==
    /\ op[1].name = "fault" /\ ret[1] = 0
    /\ dev.order = 0 /\ op[1].arg * PageSize < dev.size
    /\ op[1].page.seg = 2

\* C23: opening and closing a mapping never wait for the device lock.  A
\* caller can enter mmap and munmap and can finish them whoever holds the
\* lock, and finishing stores the adjusted dev->vmas, returns 0 and leaves
\* the lock as it is.
C23_MappingNoWait ==
    [][\A p \in procs :
        /\ (Free(p, "mmap") /\ variant # "scullc") => ENABLED MmapCall(p)
        /\ (Free(p, "munmap") /\ nvma[p] > 0) => ENABLED VmaCloseCall(p)
        /\ pc[p] = "vmas" => ENABLED VmasStore(p)
        /\ (pc[p] = "vmas" /\ pc'[p] = "idle") =>
              /\ dev'.vmas = op[p].arg + (IF op[p].name = "mmap" THEN 1 ELSE -1)
              /\ ret'[p] = 0
              /\ lock' = lock]_vars

\* a mapping was opened and its close is under way while the other caller
\* is inside the locked section of a write
C23_Witness ==
    /\ pc[2] \in {"locked", "memset"} /\ op[2].name = "write" /\ lock = 0
    /\ pc[1] = "vmas" /\ op[1].name = "munmap" /\ nvma[1] = 1

\* the quantum or order and the qset a trim would install
Defaults ==
    <<IF variant = "scullc" THEN scull_quantum ELSE 0,
      IF variant = "scullc" THEN 0 ELSE scull_order, scull_qset>>

\* C24: trim is idempotent on an empty device.  A successful trim of a
\* device that is empty (size 0, the head alone, no block array) and has the
\* current defaults leaves the device as it is, and after any successful
\* trim a second one would change nothing.
C24_TrimIdempotent ==
    [][\A p \in Procs :
        (Step(p, "trunc") /\ op'[p].arg = 0) =>
            /\ (dev.size = 0 /\ dev.segs = <<ZeroSeg>> /\ Geometry(dev) = Defaults)
                  => dev' = dev
            /\ TrimEffect(dev') = [dev |-> dev', ret |-> 0]]_vars

\* a successful trim that found an empty device
C24_Witness ==
    /\ op[1].name = "trunc" /\ op[1].arg = 0 /\ op[1].size = 0
    /\ dev.size = 0 /\ dev.segs = <<ZeroSeg>> /\ Geometry(dev) = Defaults
    /\ budget <= MaxOps - 2

\* C25: a looped write of n >= 1 bytes at offset o on an empty device
\* allocates exactly the blocks that cover [o, o + n), stores every byte in
\* its block and leaves the size at o + n, and a looped read of n bytes from
\* o returns them; e.g. with quantum 4096 and qset 4, 5000 bytes at offset 0
\* are 4096 bytes in block 0 and 904 bytes in block 1 (two calls).
C25_LoopedWrite ==
    /\ TranslateW(4096, 4096, 4, 30) = [item |-> 0, s_pos |-> 1, q_pos |-> 0]
    /\ TranslateW(4999, 4096, 4, 30) = [item |-> 0, s_pos |-> 1, q_pos |-> 903]
    /\ (rt.empty /\ Len(rt.data) >= 1 /\ rt.phase \in {"r", "done", "short"}) =>
          LET n == Len(rt.data)
              T(x) == Translate(x, Quantum(dev), dev.qset)
          IN  /\ dev.size = rt.o + n
              /\ Blocks(dev) = {<<T(x).item + 1, T(x).s_pos + 1>> : x \in rt.o..(rt.o + n - 1)}
              /\ \A k \in 1..n :
                   LET t == T(rt.o + k - 1)
                       b == dev.segs[t.item + 1].data[t.s_pos + 1].bytes
                   IN  t.q_pos < Len(b) /\ b[t.q_pos + 1] = rt.data[k]
              /\ rt.phase # "r" => rt.phase = "done" /\ rt.got = rt.data

\* C26: every operation that takes the device lock, the fault handler
\* included, returns Interrupted when its lock wait is cancelled: whoever
\* waits for the held lock can leave the wait with -ERESTARTSYS instead of
\* waiting on.
C26_AllInterruptible ==
    \A p \in procs :
        (pc[p] = "wait" /\ lock = 0) => ENABLED Interrupt(p)

\* C27: integer overflow is guarded.  A read or write whose quantum * qset
\* or whose list item index does not fit the int of the translation, and a
\* seek whose base + offset does not fit the long, is rejected with -EINVAL
\* or saturated at the largest value; it never goes on with a wrapped
\* itemsize, a wrapped or negative list item index or a wrapped position.
C27_OverflowGuarded ==
    [][\A p \in Procs :
        /\ Step(p, "xlate") =>
              LET exact == op'[p].quantum * op'[p].qset
                  IntMax == 2 ^ (IntWidth - 1) - 1
              IN  /\ pc'[p] = "idle"
                  /\ IF exact <= IntMax /\ op'[p].pos \div exact <= IntMax
                     THEN ret'[p] = op'[p].pos \div exact
                     ELSE ret'[p] \in {-EINVAL, IntMax}
        /\ \A cur \in LongSeekFrom, sk \in LongSeeks :
              Llseek(p, cur, sk[1], sk[2]) =>
                  LET exact == (CASE sk[2] = 0 -> 0 [] sk[2] = 1 -> cur
                                  [] OTHER -> dev.size) + sk[1]
                  IN  IF exact > LongMax
                      THEN \/ ret'[p] = -EINVAL /\ f_pos'[p] = cur
                           \/ ret'[p] = LongMax /\ f_pos'[p] = LongMax
                      ELSE IF exact < 0
                      THEN ret'[p] = -EINVAL /\ f_pos'[p] = cur
                      ELSE ret'[p] = exact /\ f_pos'[p] = exact]_vars

\* C28: read and write use the block-array width and the block size the
\* device has while they hold the lock.  Under every interleaving with a
\* truncating open that changes the qset or the quantum/order of the device,
\* every block array of the device has exactly dev->qset slots, and no
\* fault has taken a page from a slot outside the array it indexed.
C28_LockedGeometry ==
    /\ \A i \in 1..Len(dev.segs) :
         dev.segs[i].has => Len(dev.segs[i].data) = dev.qset
    /\ \A p \in procs : op[p].page # WildPage

\* C29: every read, write, truncating open and fault that takes the device
\* lock releases it exactly once before it returns, on every path: whenever
\* no call is in progress the lock is free, the lock is never released
\* twice, and under fair scheduling a call that waits for the lock leaves
\* the wait.
C29_LockReleased ==
    /\ []((\A p \in procs : pc[p] \in {"idle", "oops"}) => lock = 1)
    /\ [](lock \in {0, 1})
    /\ \A p \in Procs : (pc[p] = "wait") ~> (pc[p] # "wait")

\* C30: no page that the fault handler has handed to an open mapping is
\* freed by trim.  Under every interleaving of mapping opens, faults,
\* truncating opens and mapping closes, the block whose page a caller's last
\* fault returned is allocated for as long as that caller has a mapping
\* open.
C30_MappedPagesKept ==
    \A p \in procs :
        (pc[p] = "idle" /\ op[p].name = "fault" /\ ret[p] = 0 /\ nvma[p] > 0) =>
            <<op[p].page.seg, op[p].page.slot>> \in Blocks(dev)

\* C31: a write-only open of a device that has an open mapping returns 0
\* although its trim is refused (-EBUSY), and leaves the size, the
\* configuration, the list, the block arrays and the stored bytes as they
\* were; a write-only open of a device without a mapping has emptied it
\* (size 0) when it returns 0.
C31_OpenIgnoresBusy ==
    [][\A p \in Procs :
        Step(p, "trunc") =>
            /\ pc'[p] = "idle" /\ ret'[p] = 0
            /\ IF nvma[1] + nvma[2] > 0
               THEN op'[p].arg = -EBUSY /\ dev' = dev
               ELSE op'[p].arg = 0 /\ dev'.size = 0]_vars

\* a write-only open has returned 0 on a device that holds data and is
\* mapped once: its trim was refused and the data is still there
C31_Witness ==
    /\ op[1].name = "trunc" /\ op[1].arg = -EBUSY /\ ret[1] = 0
    /\ nvma[1] = 1
    /\ dev.size > 0 /\ Blocks(dev) # {}

\* C32: bytes of an allocated block that no write has stored read back as
\* zero.  After a write of at least one byte to a device of size 0 (no byte
\* stored since the last trim), a read of the caller at an offset below the
\* size that lies in an allocated block and outside the bytes of that write
\* returns the byte 0, whatever quantum is configured.
C32_ZeroFilled ==
    [][\A p \in Procs :
        (/\ Step(p, "read") /\ pc'[p] = "idle"
         /\ op[p].name = "write" /\ op[p].size = 0 /\ ret[p] > 0
         /\ op'[p].count > 0
         /\ op'[p].pos < dev.size
         /\ ~Hole(dev, op'[p].pos)
         /\ (op'[p].pos < op[p].pos \/ op'[p].pos >= op[p].pos + ret[p])) =>
            /\ ret'[p] > 0
            /\ rbuf'[p][1] = 0]_vars

\* C33: a successful trim releases every allocated block, every block array
\* and every list item but the head exactly once, each block with the order
\* it was allocated with, and releases nothing that is not allocated; after
\* it nothing that was allocated before is linked in the device.
C33_TrimReleases ==
    [][\A p \in Procs :
        (Step(p, "trunc") /\ op'[p].arg = 0) =>
            LET fr == TrimFrees(dev, 1)
                Of(kind) == {k \in 1..Len(fr) : fr[k].kind = kind}
            IN  /\ Of("wild") = {}
                /\ \A a, b \in 1..Len(fr) : a # b => fr[a] # fr[b]
                /\ {<<fr[k].seg, fr[k].slot>> : k \in Of("block")} = Blocks(dev)
                /\ {fr[k].seg : k \in Of("array")}
                     = {i \in 1..Len(dev.segs) : dev.segs[i].has}
                /\ {fr[k].seg : k \in Of("item")} = 2..Len(dev.segs)
                /\ \A k \in Of("block") :
                     variant = "scullp" =>
                       Shl(PageSize, fr[k].order)
                         = Len(dev.segs[fr[k].seg].data[fr[k].slot].bytes)
                /\ Blocks(dev') = {}
                /\ dev'.segs = <<ZeroSeg>>]_vars

\* a trim has succeeded on a scullp device of order 1 and qset 1 after one
\* write behind the first list item: its block, of order 0, was in the
\* second list item
C33_Witness ==
    /\ op[1].name = "trunc" /\ op[1].arg = 0 /\ dev.size = 0
    /\ budget = MaxOps - Cost("write") - Cost("trunc")
    /\ op[1].size > Shl(PageSize, 1)
    /\ variant = "scullp" /\ scull_order = 1 /\ scull_qset = 1

\* the step is the return of a call of p to the handler `name`: the end of
\* its locked section, or the whole call where it is one step of the only
\* caller
Returns(p, name) ==
    /\ pc'[p] = "idle" /\ op'[p].name = name
    /\ pc[p] # "idle" \/ (procs = {p} /\ budget' # budget)

\* the byte at offset o lies in an allocated block of a list item
InBlock(d, o) ==
    /\ ~Hole(d, o)
    /\ LET t == Translate(o, Quantum(d), d.qset)
       IN  t.q_pos + 1 <= Len(d.segs[t.item + 1].data[t.s_pos + 1].bytes)

\* C34: structural invariant kept by every operation.  The size is at most
\* (number of list items) * quantum * qset; every offset that a successful
\* write has just covered is below the size and lies in an allocated block
\* of a list item, and it stays there with every step that is not a
\* successful trim.
C34_Structure ==
    [][/\ dev'.size <= Len(dev'.segs) * Quantum(dev') * dev'.qset
       /\ \A p \in Procs :
            (Returns(p, "write") /\ ret'[p] > 0) =>
                \A o \in op'[p].pos .. (op'[p].pos + ret'[p] - 1) :
                    o < dev'.size /\ InBlock(dev', o)
       /\ \A o \in 0 .. (MaxPos + MaxCount) :
            (InBlock(dev, o)
               /\ ~(\E p \in Procs : Returns(p, "trunc") /\ op'[p].arg = 0)) =>
                InBlock(dev', o)]_vars

\* the device without the reference counts of its pages, which belong to
\* the page frames and not to the device
NoRefs(d) ==
    [d EXCEPT !.segs = [i \in 1..Len(d.segs) |->
        [d.segs[i] EXCEPT !.data = [k \in 1..Len(d.segs[i].data) |->
            [d.segs[i].data[k] EXCEPT !.refs = 0]]]]]

\* C35: the fault handler changes nothing in the device.  For every faulting
\* page, resolved or not, the number of list items, every block array,
\* every block, the size, the configuration and the mapping count are the
\* same after the fault as before; its walk creates no list item.
C35_FaultFrame ==
    [][\A p \in Procs :
        Step(p, "fault") =>
            /\ NoRefs(dev') = NoRefs(dev)
            /\ Len(dev'.segs) = Len(dev.segs)
            /\ ret'[p] \in {0, VM_FAULT_NOPAGE}]_vars

\* a fault has failed on a page behind the list of a device that holds data
C35_Witness ==
    /\ op[1].name = "fault" /\ ret[1] = VM_FAULT_NOPAGE
    /\ dev.size > 0
    /\ op[1].arg * PageSize >= Len(dev.segs) * Quantum(dev) * dev.qset

\* C36: a failed user-memory copy.  A write whose copy from the user buffer
\* fails returns -EFAULT with the size and the file position unchanged and
\* the lock released; a read whose copy to the user buffer fails returns
\* -EFAULT with the file position and the device unchanged.  With a user
\* buffer that is not mapped no call returns a byte count above 0.
C36_CopyFault ==
    [][\A p \in Procs :
        /\ (Step(p, "write") /\ op'[p].arg = 1 /\ pc'[p] = "idle") =>
              /\ ret'[p] \in {-EFAULT, -ENOMEM, 0}
              /\ ret'[p] = -EFAULT =>
                   /\ dev'.size = dev.size
                   /\ f_pos'[p] = op'[p].pos
                   /\ lock' = 1
        /\ (Step(p, "read") /\ op'[p].arg = 1 /\ pc'[p] = "idle") =>
              /\ ret'[p] \in {-EFAULT, 0}
              /\ ret'[p] = -EFAULT =>
                   /\ dev' = dev
                   /\ f_pos'[p] = op'[p].pos
                   /\ lock' = 1]_vars

\* after a write that stored data, a write with an unmapped user buffer has
\* returned -EFAULT
C36_Witness ==
    /\ op[1].name = "write" /\ op[1].arg = 1 /\ ret[1] = -EFAULT
    /\ op[1].size > 0 /\ dev.size = op[1].size
    /\ lock = 1

\* the files that hold the record: skel_open has returned 0 on them and
\* skel_release has not run
OpenFiles == {p \in Procs : usb.file[p] = "open"}

\* the reference of skel_probe is held: the device is bound and
\* skel_disconnect has not dropped it
ProbeRef == usb.disc \in {"bound", "cleared", "unreg"}

\* C37: reference counting of the USB skeleton.  The record is released by
\* skel_delete at most once, and it is released exactly when the reference of
\* skel_probe has been dropped (by skel_disconnect or by a failed probe) and
\* every successful open has been matched by a release; under every
\* interleaving of open, release and disconnect no freed record is used and
\* the record is live while a file that opened it is open; an open after
\* the disconnect fails with -ENODEV and takes no reference.
C37_SkelRefcount ==
    /\ [](/\ usb.deleted <= 1
          /\ ~usb.stale
          /\ (usb.rec = "freed") = (usb.deleted = 1)
          /\ (ProbeRef \/ OpenFiles # {}) => usb.rec = "live"
          /\ usb.rec = "live" =>
               usb.kref = Cardinality(OpenFiles) + (IF ProbeRef THEN 1 ELSE 0)
          /\ (usb.rec # "none" /\ ~ProbeRef /\ OpenFiles = {}) => usb.rec = "freed"
          /\ usb.disc = "done" => \A p \in Procs : usb.file[p] \in {"closed", "open"})
    /\ [][\A p \in Procs :
            (usb.disc = "done" /\ usb.file[p] = "closed") =>
                /\ usb'.file[p] = "closed"
                /\ (usb'.call[p] # usb.call[p] \/ usb'.fret[p] # usb.fret[p]) =>
                     /\ usb'.call[p] = "open" /\ usb'.fret[p] = -ENODEV
                     /\ usb'.kref = usb.kref /\ usb'.rec = usb.rec]_vars

\* the device was disconnected while caller 1 had it open; an open of
\* caller 2 after the disconnect failed with -ENODEV, and the release of
\* caller 1 released the record
C37_Witness ==
    /\ usb.disc = "done" /\ usb.rec = "freed" /\ usb.deleted = 1
    /\ usb.call[1] = "release"
    /\ usb.call[2] = "open" /\ usb.fret[2] = -ENODEV

\* a skel_write has run
Written == \E p \in Procs : usb.call[p] = "write"

\* C38: skel_write.  A write of count 0 returns 0 and allocates nothing; a
\* successful write returns count and leaves the transfer buffer to the
\* completion callback, which frees it exactly once; on every failure
\* (allocation of the urb, allocation of the buffer, user copy, submission)
\* the write returns the error, uses nothing that was not allocated, and
\* frees the urb and the buffer at most once each.
C38_SkelWrite ==
    Written =>
        /\ ~usb.wnull
        /\ usb.wcount = 0 => usb.wret = 0 /\ usb.urballoc = 0 /\ usb.bufalloc = 0
        /\ (usb.wcount > 0 /\ usb.wfail = "none") =>
              /\ usb.wret = usb.wcount
              /\ IF usb.flight THEN usb.buffree = 0 /\ usb.urbfree = 0
                               ELSE usb.buffree = 1 /\ usb.urbfree = 1
        /\ usb.wfail # "none" =>
              /\ usb.wret < 0 /\ ~usb.flight
              /\ usb.urbfree <= usb.urballoc /\ usb.buffree <= usb.bufalloc

====
